---- MODULE Spec2Model ----
(***************************************************************************)
(* Account-security subsystem of treasuretto: account lockout tracker,     *)
(* session registry, fixed-window rate limiter, Security Gate pipeline,    *)
(* route middleware and the 2FA routes.                                    *)
(*                                                                         *)
(* Time is the value of Date.now() in milliseconds.  The clock moves over  *)
(* a finite grid of instants chosen so that every comparison the code      *)
(* makes (now < lockoutExpiry, now > resetTime, ceil of a remainder) is    *)
(* exercised just before, exactly at and just after its boundary.          *)
(***************************************************************************)
EXTENDS Integers, Sequences, FiniteSets, TLC

VARIABLES
    now,               \* Date.now(), ms
    account_lockouts,  \* table account_lockouts: user_id -> row | NoRow
    user_sessions,     \* table of session rows (sequence, index = row id)
    two_factor_auth,   \* table two_factor_auth: user_id -> row | NoRow
    two_factor_ok,     \* cookie two_factor_ok of each user's browser
    rateLimitStore,    \* module-level Map key -> {count, resetTime} | NoRow
    config,            \* the SecurityConfig of the middleware instance
    pending,           \* recordFailedAttempt calls suspended between their
                       \* select and their upsert: call -> row read | Idle
    resp,              \* what the last handler returned
    hist               \* history kept for stating the properties

vars == <<now, account_lockouts, user_sessions, two_factor_auth,
          two_factor_ok, rateLimitStore, config, pending, resp, hist>>

(***************************************************************************)
(* Bounds of the exploration.                                              *)
(***************************************************************************)
MaxJitter == 1       \* instants 0..MaxJitter ms around each grid point
MaxMinutes == 1      \* grid points at whole minutes 0..MaxMinutes
MaxPeriods == 1      \* grid points at whole lockout durations
MaxRecorded == 6     \* recordFailedAttempt calls per account
MaxRows == 6         \* rows ever inserted in the session table
MaxSignIns == 2      \* successful sign-ins while lockouts are explored
MaxKeep == 2         \* keepCount of terminateOldestSessions calls
MaxAccepted == 2     \* accepted verify requests kept in the history
MaxCalls == 2        \* overlapping recordFailedAttempt calls
CfgMaxRequests == 2  \* config.rateLimit.maxRequests supplied by the caller

MaxSeconds == 64     \* seconds on the clock of the TOTP engine
MaxBytes == 6        \* bytes in a buffer handed to base32Encode
MaxLowByte == 1      \* low byte values in the digests that are truncated
MaxCounter == 3      \* time steps 0..MaxCounter handed to generateCodeForCounter
MaxSecret == 2       \* distinct secrets generateSecret can return
MaxBackup == 2       \* backup codes per credential (generateBackupCodes)

Users == {"u1", "u2"}
Secrets == 1..MaxSecret
\* A string is the sequence of its characters.  A backup code is 8
\* characters, the upper-case hex of 4 random bytes.
BackupCodeLength == 8
Chars8(ch) == [i \in 1..BackupCodeLength |-> ch]
BackupCodes == {Chars8("A"), Chars8("B")}
BackupCodeLists == [1..MaxBackup -> BackupCodes]
LockUsers == {"u1"}
GateUsers == {"u1"}
Keys == {"1.1.1.1:/api/a"}
Calls == 1..MaxCalls
NoRow == [absent |-> TRUE]
NoUser == "anonymous"
Null == -1
Idle == [idle |-> TRUE]
Disabled == [disabled |-> TRUE]

(***************************************************************************)
(* Program constants.                                                      *)
(***************************************************************************)
maxConcurrentSessions == 5
maxFailedAttempts == 5
lockoutDuration == 15 * 60 * 1000
RATE_LIMIT_CONFIG == [windowMs |-> 60 * 1000, maxRequests |-> 100]
NoWindow == [start |-> Null, calls |-> 0]
cookieMaxAge == 60 * 30 * 1000

Instants ==
    { j + m * 60000 + k * lockoutDuration :
        j \in 0..MaxJitter, m \in 0..MaxMinutes, k \in 0..MaxPeriods }

\* instants around the lockout deadlines only
LockInstants ==
    { j + k * lockoutDuration : j \in 0..MaxJitter, k \in 0..MaxPeriods }

\* Math.ceil(a / b) for a >= 0, b > 0
Ceil(a, b) == (a + b - 1) \div b

\* new Date(v).getTime(): a null column converts to the epoch, 0
DateGetTime(v) == IF v = Null THEN 0 ELSE v

(***************************************************************************)
(* Account Lockout Tracker (EnhancedAuthMiddleware).                       *)
(***************************************************************************)

\* The value checkAccountLockout returns when the row it selects is `row`.
lockoutStatus(row) ==
    IF row = NoRow
    THEN [locked |-> FALSE, remainingTime |-> 0, failedAttempts |-> 0]
    ELSE IF now < DateGetTime(row.locked_until)
         THEN [locked |-> TRUE,
               remainingTime |-> DateGetTime(row.locked_until) - now,
               failedAttempts |-> row.failed_attempts]
         ELSE [locked |-> FALSE, remainingTime |-> 0, failedAttempts |-> 0]

\* the account's lockout is active: locked_until is set and not yet passed
isLocked(u) ==
    /\ account_lockouts[u] # NoRow
    /\ account_lockouts[u].locked_until # Null
    /\ now < account_lockouts[u].locked_until

\* The table after checkAccountLockout(u): a row that is not locked now is
\* deleted ("Clear expired lockout").
lockoutsAfterCheck(u) ==
    IF account_lockouts[u] # NoRow /\ ~lockoutStatus(account_lockouts[u]).locked
    THEN [account_lockouts EXCEPT ![u] = NoRow]
    ELSE account_lockouts

\* recordFailedAttempt with the threshold compared by > : locks on the 6th
failedAttemptRowLate(existing) ==
    LET failedAttempts ==
            (IF existing = NoRow THEN 0 ELSE existing.failed_attempts) + 1
    IN [failed_attempts |-> failedAttempts,
        locked_until |-> IF failedAttempts > maxFailedAttempts
                         THEN now + lockoutDuration ELSE Null]

\* recordFailedAttempt with the lock set one attempt early, on the 4th
failedAttemptRowEarly(existing) ==
    LET failedAttempts ==
            (IF existing = NoRow THEN 0 ELSE existing.failed_attempts) + 1
    IN [failed_attempts |-> failedAttempts,
        locked_until |-> IF failedAttempts >= maxFailedAttempts - 1
                         THEN now + lockoutDuration ELSE Null]

\* The row recordFailedAttempt upserts, given the row its select returned.
failedAttemptRow(existing) ==
    LET failedAttempts ==
            (IF existing = NoRow THEN 0 ELSE existing.failed_attempts) + 1
    IN [failed_attempts |-> failedAttempts,
        locked_until |-> IF failedAttempts >= maxFailedAttempts
                         THEN now + lockoutDuration ELSE Null]

defaultConfig ==
    [requireAuth |-> TRUE, requireSubscription |-> FALSE,
     require2FA |-> FALSE, rateLimit |-> RATE_LIMIT_CONFIG,
     validateInput |-> TRUE, logSecurityEvents |-> TRUE]

\* empty tables, no cookie, no call in progress
EmptyStores ==
    /\ now = 0
    /\ account_lockouts = [u \in Users |-> NoRow]
    /\ user_sessions = << >>
    /\ two_factor_auth = [u \in Users |-> NoRow]
    /\ two_factor_ok = [u \in Users |-> Null]
    /\ rateLimitStore = [k \in Keys |-> NoRow]
    /\ pending = [c \in Calls |-> Idle]
    /\ hist = [recorded |-> [u \in Users |-> 0],
               streak |-> [u \in Users |-> 0],
               fifthAt |-> [u \in Users |-> Null],
               win |-> [k \in Keys |-> NoWindow],
               validated |-> [u \in Users |-> {}],
               used |-> [u \in Users |-> {}],
               allowedAt |-> [k \in Keys |-> << >>],
               accepted |-> [u \in Users |-> {}]]

InitStores ==
    /\ EmptyStores
    /\ resp = [op |-> "init"]

\* new AdvancedSecurityMiddleware(): the constructor's defaults
Init ==
    /\ InitStores
    /\ config = defaultConfig

Tick ==
    /\ \E t \in Instants : t > now /\ now' = t
    /\ UNCHANGED <<account_lockouts, user_sessions, two_factor_auth,
                   two_factor_ok, rateLimitStore, config, pending, resp, hist>>

TickLock ==
    /\ \E t \in LockInstants : t > now /\ now' = t
    /\ UNCHANGED <<account_lockouts, user_sessions, two_factor_auth,
                   two_factor_ok, rateLimitStore, config, pending, resp, hist>>

(***************************************************************************)
(* Session Registry (EnhancedAuthMiddleware, login page).                  *)
(***************************************************************************)
RowIds(sess) == 1..Len(sess)

activeIds(u, sess) ==
    { i \in RowIds(sess) : sess[i].user_id = u /\ sess[i].is_active }

getActiveSessionCount(u, sess) == Cardinality(activeIds(u, sess))

\* the selection with the rows ordered by last_activity ascending: the
\* oldest keepCount rows are kept
terminableAscending(u, keepCount, sess) ==
    LET act == activeIds(u, sess)
    IN IF Cardinality(act) > keepCount
       THEN { T \in SUBSET act :
                /\ Cardinality(T) = Cardinality(act) - keepCount
                /\ \A t \in T : \A k \in act \ T :
                       sess[k].last_activity <= sess[t].last_activity }
       ELSE { {} }

\* The sets of rows `order by last_activity desc` followed by slice(keepCount)
\* can select: rows of equal last_activity come in an order the store picks.
terminable(u, keepCount, sess) ==
    LET act == activeIds(u, sess)
    IN IF Cardinality(act) > keepCount
       THEN { T \in SUBSET act :
                /\ Cardinality(T) = Cardinality(act) - keepCount
                /\ \A t \in T : \A k \in act \ T :
                       sess[k].last_activity >= sess[t].last_activity }
       ELSE { {} }

\* The tables terminateOldestSessions(u, keepCount) can leave.
terminateOldestSessions(u, keepCount, sess) ==
    { [i \in RowIds(sess) |->
          IF i \in T
          THEN [sess[i] EXCEPT !.is_active = FALSE, !.terminated_at = now]
          ELSE sess[i]] : T \in terminable(u, keepCount, sess) }

\* the update without its user_id filter: every active row
updateLastActivityEveryone(u, sess) ==
    [i \in RowIds(sess) |->
        IF sess[i].is_active
        THEN [sess[i] EXCEPT !.last_activity = now]
        ELSE sess[i]]

updateLastActivity(u, sess) ==
    [i \in RowIds(sess) |->
        IF sess[i].user_id = u /\ sess[i].is_active
        THEN [sess[i] EXCEPT !.last_activity = now]
        ELSE sess[i]]

\* The row handleSignIn upserts; is_active and last_activity take the
\* column defaults (true, now()).
newSessionRow(u) ==
    [user_id |-> u, is_active |-> TRUE, last_activity |-> now,
     terminated_at |-> Null]

(***************************************************************************)
(* History.  recorded: recordFailedAttempt calls completed for an account  *)
(* since its last successful authentication or lockout expiry.  streak:    *)
(* those completed since the account last had no lockout row.  fifthAt:    *)
(* the instant of the fifth call of the streak.  validated: the secrets    *)
(* against which a code submitted for the account was verified.  used:    *)
(* the backup codes of the account's present list that a submission        *)
(* consumed (it succeeded and the stored list was updated).                *)
(***************************************************************************)
histReset(u) ==
    [hist EXCEPT !.recorded[u] = 0, !.streak[u] = 0, !.fifthAt[u] = Null]

\* a lockout check deleted a row that carried no lock
histRowDropped(u) ==
    [hist EXCEPT !.streak[u] = 0, !.fifthAt[u] = Null]

histRecorded(u) ==
    [hist EXCEPT !.recorded[u] = @ + 1,
                 !.streak[u] = @ + 1,
                 !.fifthAt[u] = IF hist.streak[u] + 1 = maxFailedAttempts
                                THEN now ELSE @]

\* checkAccountLockout(u) finds a lock whose deadline has passed
lockExpired(u) ==
    /\ account_lockouts[u] # NoRow
    /\ account_lockouts[u].locked_until # Null
    /\ now >= account_lockouts[u].locked_until

(***************************************************************************)
(* EnhancedAuthMiddleware.checkAuth, for the user the session resolves to. *)
(***************************************************************************)
checkAuthAnonymous ==
    /\ resp' = [op |-> "checkAuth", user |-> NoUser, authenticated |-> FALSE,
                minutes |-> Null]
    /\ UNCHANGED <<now, account_lockouts, user_sessions, two_factor_auth,
                   two_factor_ok, rateLimitStore, config, pending, hist>>

checkAuth(u) ==
    LET status == lockoutStatus(account_lockouts[u])
    IN /\ account_lockouts' = lockoutsAfterCheck(u)
       /\ hist' = IF lockExpired(u) THEN histReset(u)
                  ELSE IF lockoutsAfterCheck(u) # account_lockouts
                       THEN histRowDropped(u) ELSE hist
       /\ IF status.locked
          THEN /\ resp' = [op |-> "checkAuth", user |-> u,
                           authenticated |-> FALSE,
                           minutes |-> Ceil(status.remainingTime, 60000)]
               /\ UNCHANGED user_sessions
          ELSE /\ resp' = [op |-> "checkAuth", user |-> u,
                           authenticated |-> TRUE, minutes |-> Null]
               /\ \E capped \in
                       (IF getActiveSessionCount(u, user_sessions)
                             > maxConcurrentSessions
                        THEN terminateOldestSessions(u, maxConcurrentSessions,
                                                     user_sessions)
                        ELSE {user_sessions}) :
                     user_sessions' = updateLastActivity(u, capped)
       /\ UNCHANGED <<now, two_factor_auth, two_factor_ok, rateLimitStore,
                      config, pending>>

(***************************************************************************)
(* recordFailedAttempt: select, then upsert.  recordFailedAttempt(u) is a  *)
(* call that runs alone; recordSelect/recordUpsert are the two halves of a *)
(* call that other requests overlap (the await between them).              *)
(***************************************************************************)
recordFailedAttempt(u) ==
    /\ hist.recorded[u] < MaxRecorded
    /\ \A c \in Calls : pending[c] = Idle
    /\ account_lockouts' =
           [account_lockouts EXCEPT ![u] = failedAttemptRow(account_lockouts[u])]
    /\ hist' = histRecorded(u)
    /\ resp' = [op |-> "recordFailedAttempt", user |-> u]
    /\ UNCHANGED <<now, user_sessions, two_factor_auth, two_factor_ok,
                   rateLimitStore, config, pending>>

recordSelect(c, u) ==
    /\ pending[c] = Idle
    /\ hist.recorded[u]
         + Cardinality({d \in Calls : pending[d] # Idle /\ pending[d].user = u})
         < MaxRecorded
    /\ pending' = [pending EXCEPT
                      ![c] = [user |-> u, existing |-> account_lockouts[u]]]
    /\ UNCHANGED <<now, account_lockouts, user_sessions, two_factor_auth,
                   two_factor_ok, rateLimitStore, config, resp, hist>>

recordUpsert(c) ==
    /\ pending[c] # Idle
    /\ LET u == pending[c].user
       IN /\ account_lockouts' =
                 [account_lockouts EXCEPT
                     ![u] = failedAttemptRow(pending[c].existing)]
          /\ hist' = histRecorded(u)
          /\ resp' = [op |-> "recordFailedAttempt", user |-> u]
    /\ pending' = [pending EXCEPT ![c] = Idle]
    /\ UNCHANGED <<now, user_sessions, two_factor_auth, two_factor_ok,
                   rateLimitStore, config>>

clearFailedAttempts(u) ==
    /\ account_lockouts' = [account_lockouts EXCEPT ![u] = NoRow]
    /\ hist' = histReset(u)
    /\ resp' = [op |-> "clearFailedAttempts", user |-> u]
    /\ UNCHANGED <<now, user_sessions, two_factor_auth, two_factor_ok,
                   rateLimitStore, config, pending>>

\* a call of terminateOldestSessions(u, keepCount) on its own
terminateOldestSessionsCall(u, keepCount) ==
    /\ user_sessions' \in terminateOldestSessions(u, keepCount, user_sessions)
    /\ resp' = [op |-> "terminateOldestSessions", user |-> u,
                keepCount |-> keepCount]
    /\ UNCHANGED <<now, account_lockouts, two_factor_auth, two_factor_ok,
                   rateLimitStore, config, pending, hist>>

(***************************************************************************)
(* Login page handleSignIn: signInWithPassword, then on success delete     *)
(* the lockout row and upsert a session row.                               *)
(***************************************************************************)
handleSignInError(u) ==
    /\ resp' = [op |-> "handleSignIn", user |-> u, signedIn |-> FALSE]
    /\ UNCHANGED <<now, account_lockouts, user_sessions, two_factor_auth,
                   two_factor_ok, rateLimitStore, config, pending, hist>>

handleSignIn(u) ==
    /\ Len(user_sessions) < MaxRows
    /\ account_lockouts' = [account_lockouts EXCEPT ![u] = NoRow]
    /\ user_sessions' = Append(user_sessions, newSessionRow(u))
    /\ hist' = histReset(u)
    /\ resp' = [op |-> "handleSignIn", user |-> u, signedIn |-> TRUE]
    /\ UNCHANGED <<now, two_factor_auth, two_factor_ok, rateLimitStore,
                   config, pending>>

(***************************************************************************)
(* Rate Limiter (AdvancedSecurityMiddleware.checkRateLimit; the one in     *)
(* SecurityMiddleware is the same code over its own Map).                  *)
(***************************************************************************)
\* a || b on numbers: 0 and undefined fall through to b
OrDefault(a, b) == IF a = 0 \/ a = Null THEN b ELSE a

effWindowMs ==
    OrDefault(IF config.rateLimit = Disabled THEN Null
              ELSE config.rateLimit.windowMs, RATE_LIMIT_CONFIG.windowMs)

effMaxRequests ==
    OrDefault(IF config.rateLimit = Disabled THEN Null
              ELSE config.rateLimit.maxRequests, RATE_LIMIT_CONFIG.maxRequests)

\* checkRateLimit that lets a call of an open window through without
\* counting it
rateLimitOutcomeNotCounted(current) ==
    IF current = NoRow \/ now > current.resetTime
    THEN [entry |-> [count |-> 1, resetTime |-> now + effWindowMs],
          allowed |-> TRUE, retryAfter |-> Null,
          remaining |-> effMaxRequests - 1]
    ELSE IF current.count >= effMaxRequests
         THEN [entry |-> current, allowed |-> FALSE,
               retryAfter |-> Ceil(current.resetTime - now, 1000),
               remaining |-> 0]
         ELSE [entry |-> current,
               allowed |-> TRUE, retryAfter |-> Null,
               remaining |-> effMaxRequests - (current.count + 1)]

\* checkRateLimit that opens a window of no length: resetTime = now
rateLimitOutcomeZeroWindow(current) ==
    IF current = NoRow \/ now > current.resetTime
    THEN [entry |-> [count |-> 1, resetTime |-> now],
          allowed |-> TRUE, retryAfter |-> Null,
          remaining |-> effMaxRequests - 1]
    ELSE IF current.count >= effMaxRequests
         THEN [entry |-> current, allowed |-> FALSE,
               retryAfter |-> Ceil(current.resetTime - now, 1000),
               remaining |-> 0]
         ELSE [entry |-> [current EXCEPT !.count = @ + 1],
               allowed |-> TRUE, retryAfter |-> Null,
               remaining |-> effMaxRequests - (current.count + 1)]

\* checkRateLimit with the limit compared by > : lets one more call through
rateLimitOutcomeOffByOne(current) ==
    IF current = NoRow \/ now > current.resetTime
    THEN [entry |-> [count |-> 1, resetTime |-> now + effWindowMs],
          allowed |-> TRUE, retryAfter |-> Null,
          remaining |-> effMaxRequests - 1]
    ELSE IF current.count > effMaxRequests
         THEN [entry |-> current, allowed |-> FALSE,
               retryAfter |-> Ceil(current.resetTime - now, 1000),
               remaining |-> 0]
         ELSE [entry |-> [current EXCEPT !.count = @ + 1],
               allowed |-> TRUE, retryAfter |-> Null,
               remaining |-> effMaxRequests - (current.count + 1)]

\* What checkRateLimit stores and returns when the Map holds `current`
\* for the request's key.
rateLimitOutcome(current) ==
    IF current = NoRow \/ now > current.resetTime
    THEN [entry |-> [count |-> 1, resetTime |-> now + effWindowMs],
          allowed |-> TRUE, retryAfter |-> Null,
          remaining |-> effMaxRequests - 1]
    ELSE IF current.count >= effMaxRequests
         THEN [entry |-> current, allowed |-> FALSE,
               retryAfter |-> Ceil(current.resetTime - now, 1000),
               remaining |-> 0]
         ELSE [entry |-> [current EXCEPT !.count = @ + 1],
               allowed |-> TRUE, retryAfter |-> Null,
               remaining |-> effMaxRequests - (current.count + 1)]

\* History: the window a call at `now` falls in and the calls made in it
\* (counted up to one past the limit).
histCall(k) ==
    LET w == hist.win[k]
    IN [hist EXCEPT !.win[k] =
           IF w.start = Null \/ now > w.start + effWindowMs
           THEN [start |-> now, calls |-> 1]
           ELSE [w EXCEPT !.calls = IF @ > effMaxRequests THEN @ ELSE @ + 1]]

\* History: the latest allowed calls of a key (one more than twice the
\* limit at most), each with its instant and the start of its window.
histAllowed(h, k, allowed) ==
    LET keep == 2 * effMaxRequests + 1
        all == Append(hist.allowedAt[k], [at |-> now, win |-> h.win[k].start])
    IN IF ~allowed THEN h
       ELSE [h EXCEPT !.allowedAt[k] =
                IF Len(all) > keep THEN SubSeq(all, 2, Len(all)) ELSE all]

\* checkRateLimit as simultaneous requests run it.  handle awaits the call
\* (line 59), so several requests can be between their arrival and their
\* check at once; the body of checkRateLimit holds no await between the
\* Map's get (190) and set (194, 212), so each check runs to its end before
\* another starts.
rateLimitArrive(c, k) ==
    /\ pending[c] = Idle
    /\ pending' = [pending EXCEPT ![c] = [key |-> k]]
    /\ UNCHANGED <<now, account_lockouts, user_sessions, two_factor_auth,
                   two_factor_ok, rateLimitStore, config, resp, hist>>

rateLimitRun(c) ==
    /\ pending[c] # Idle
    /\ LET k == pending[c].key
           out == rateLimitOutcome(rateLimitStore[k])
       IN /\ rateLimitStore' = [rateLimitStore EXCEPT ![k] = out.entry]
          /\ hist' = histAllowed(histCall(k), k, out.allowed)
          /\ resp' = [op |-> "checkRateLimit", key |-> k, at |-> now,
                      allowed |-> out.allowed, retryAfter |-> out.retryAfter,
                      remaining |-> out.remaining]
    /\ pending' = [pending EXCEPT ![c] = Idle]
    /\ UNCHANGED <<now, account_lockouts, user_sessions, two_factor_auth,
                   two_factor_ok, config>>

checkRateLimit(k) ==
    LET out == rateLimitOutcome(rateLimitStore[k])
    IN /\ rateLimitStore' = [rateLimitStore EXCEPT ![k] = out.entry]
       /\ hist' = histCall(k)
       /\ resp' = [op |-> "checkRateLimit", key |-> k, at |-> now,
                   allowed |-> out.allowed, retryAfter |-> out.retryAfter,
                   remaining |-> out.remaining]
       /\ UNCHANGED <<now, account_lockouts, user_sessions, two_factor_auth,
                      two_factor_ok, config, pending>>

(***************************************************************************)
(* Base32 (RFC 4648) as written in the TOTP module.  A string is a tuple   *)
(* of characters, a buffer a tuple of bytes.  The accumulators are 32-bit  *)
(* words, as the operands of the bitwise operators are: a word is a tuple  *)
(* of 32 bits, the most significant first.                                 *)
(***************************************************************************)
\* String.prototype.toUpperCase on the characters that occur
toUpperCase(str) ==
    [i \in 1..Len(str) |->
        CASE str[i] = "a" -> "A" [] str[i] = "b" -> "B" [] OTHER -> str[i]]

BASE32_ALPHABET ==
    <<"A", "B", "C", "D", "E", "F", "G", "H", "I", "J", "K", "L", "M", "N",
      "O", "P", "Q", "R", "S", "T", "U", "V", "W", "X", "Y", "Z",
      "2", "3", "4", "5", "6", "7">>

\* the 32-bit word of a number below 2^12
toWord(n) ==
    [i \in 1..32 |-> IF i <= 20 THEN 0 ELSE (n \div (2 ^ (32 - i))) % 2]

\* w << k, w >>> k, a | b, a & b
shl(w, k) == SubSeq(w, k + 1, 32) \o [i \in 1..k |-> 0]
ushr(w, k) == [i \in 1..k |-> 0] \o SubSeq(w, 1, 32 - k)
bitOr(a, b) ==
    SubSeq([i \in 1..32 |-> IF a[i] = 1 \/ b[i] = 1 THEN 1 ELSE 0], 1, 32)
bitAnd(a, b) ==
    SubSeq([i \in 1..32 |-> IF a[i] = 1 /\ b[i] = 1 THEN 1 ELSE 0], 1, 32)

\* the number of a word whose bits above the low eight are clear
lowValue(w) ==
    w[32] + 2 * w[31] + 4 * w[30] + 8 * w[29] + 16 * w[28] + 32 * w[27]
    + 64 * w[26] + 128 * w[25]

\* BASE32_ALPHABET[w & 31]
alphabetAt(w) == BASE32_ALPHABET[lowValue(bitAnd(w, toWord(31))) + 1]

\* while (bits >= 5) { output += ...[(value >>> (bits - 5)) & 31]; bits -= 5 }
RECURSIVE encodeDrain(_, _, _)
encodeDrain(value, bits, output) ==
    IF bits >= 5
    THEN encodeDrain(value, bits - 5,
                     Append(output, alphabetAt(ushr(value, bits - 5))))
    ELSE [bits |-> bits, output |-> output]

\* the last character, as the mutant writes it: the left-over bits unshifted
encodeTailUnshifted(value, bits) == alphabetAt(value)

\* BASE32_ALPHABET[(value << (5 - bits)) & 31]
encodeTail(value, bits) == alphabetAt(shl(value, 5 - bits))

RECURSIVE encodeLoop(_, _, _, _, _)
encodeLoop(buffer, i, bits, value, output) ==
    IF i > Len(buffer)
    THEN IF bits > 0 THEN Append(output, encodeTail(value, bits)) ELSE output
    ELSE LET v == bitOr(shl(value, 8), toWord(buffer[i]))
             d == encodeDrain(v, bits + 8, output)
         IN encodeLoop(buffer, i + 1, d.bits, v, d.output)

base32Encode(buffer) == encodeLoop(buffer, 1, 0, toWord(0), << >>)

\* BASE32_ALPHABET.indexOf(ch), -1 when ch is not in the alphabet
indexOf(ch) ==
    IF \E k \in 1..32 : BASE32_ALPHABET[k] = ch
    THEN (CHOOSE k \in 1..32 : BASE32_ALPHABET[k] = ch) - 1
    ELSE -1

\* replace(/=+$/g, '')
RECURSIVE stripPadding(_)
stripPadding(str) ==
    IF Len(str) > 0 /\ str[Len(str)] = "="
    THEN stripPadding(SubSeq(str, 1, Len(str) - 1))
    ELSE str

RECURSIVE decodeLoop(_, _, _, _, _)
decodeLoop(cleaned, i, bits, value, bytes) ==
    IF i > Len(cleaned) THEN bytes
    ELSE LET idx == indexOf(cleaned[i])
         IN IF idx = -1
            THEN decodeLoop(cleaned, i + 1, bits, value, bytes)
            ELSE LET v == bitOr(shl(value, 5), toWord(idx))
                     b == bits + 5
                 IN IF b >= 8
                    THEN decodeLoop(cleaned, i + 1, b - 8, v,
                             Append(bytes,
                                 lowValue(bitAnd(ushr(v, b - 8),
                                                 toWord(255)))))
                    ELSE decodeLoop(cleaned, i + 1, b, v, bytes)

base32Decode(input) ==
    decodeLoop(stripPadding(toUpperCase(input)), 1, 0, toWord(0), << >>)

\* the buffers handed to base32Encode
ByteValues == {0, 90, 255}

RECURSIVE BuffersOfLength(_)
BuffersOfLength(n) ==
    IF n = 0 THEN {<< >>}
    ELSE { Append(b, x) : b \in BuffersOfLength(n - 1), x \in ByteValues }

Buffers == UNION { BuffersOfLength(n) : n \in 0..MaxBytes }

\* '=' appended up to the next multiple of eight characters
RECURSIVE padded(_)
padded(str) ==
    IF Len(str) % 8 = 0 THEN str ELSE padded(Append(str, "="))

(***************************************************************************)
(* The dynamic truncation of generateCodeForCounter (RFC 4226), applied to *)
(* the 20 bytes that hmac.digest() returned.                               *)
(***************************************************************************)
DIGITS == 6

\* the number of a 32-bit word read as a signed integer
RECURSIVE lowBits(_, _)
lowBits(w, i) ==
    IF i > 32 THEN 0 ELSE w[i] * (2 ^ (32 - i)) + lowBits(w, i + 1)

int32(w) ==
    IF w[1] = 0 THEN lowBits(w, 2)
    ELSE (lowBits(w, 2) - (2 ^ 30)) - (2 ^ 30)

\* a % b of two numbers, the sign of the result that of a
remainder(a, b) == IF a >= 0 THEN a % b ELSE 0 - ((0 - a) % b)

\* Number.prototype.toString of a number that is not negative
RECURSIVE toString(_)
toString(n) ==
    LET digit == <<"0", "1", "2", "3", "4", "5", "6", "7", "8", "9">>
    IN IF n < 10 THEN <<digit[n + 1]>>
       ELSE Append(toString(n \div 10), digit[(n % 10) + 1])

\* the string left as it is, whatever its length
padStartNone(str, length, ch) == str

\* String.prototype.padStart
RECURSIVE padStart(_, _, _)
padStart(str, length, ch) ==
    IF Len(str) >= length THEN str ELSE padStart(<<ch>> \o str, length, ch)

\* lines 84-90: hash is the digest, hash[1] its first byte
truncate(hash) ==
    LET offset == lowValue(bitAnd(toWord(hash[Len(hash)]), toWord(15)))
        byte(k, mask) == bitAnd(toWord(hash[offset + k + 1]), toWord(mask))
        code == bitOr(bitOr(shl(byte(0, 127), 24), shl(byte(1, 255), 16)),
                      bitOr(shl(byte(2, 255), 8), byte(3, 255)))
    IN padStart(toString(remainder(int32(code), 10 ^ DIGITS)), DIGITS, "0")

\* the digests handed to the truncation: a last byte, four bytes at the
\* offset it selects, zeros elsewhere
HashLength == 20
LastBytes == (0..15) \cup {240, 245, 255}
WindowBytes == (0..MaxLowByte) \cup {42, 128, 255}

hashOf(last, window) ==
    [i \in 1..HashLength |->
        IF i = HashLength THEN last
        ELSE IF i - (last % 16) \in 1..4 THEN window[i - (last % 16)]
        ELSE 0]

Hashes == { hashOf(last, w) : last \in LastBytes, w \in [1..4 -> WindowBytes] }

(***************************************************************************)
(* crypto.createHmac('sha1', key).update(buffer).digest(): HMAC (RFC 2104) *)
(* over SHA-1 (FIPS 180-4), as Node's crypto computes it.  Here a 32-bit   *)
(* word is the pair of its 16-bit halves, so that sums stay in range.  The *)
(* digest is computed a round at a step: sha1 below is the state of the    *)
(* computation, advanced by the actions hmacStart, shaRound, shaBlock and  *)
(* shaDone.                                                                *)
(***************************************************************************)
RECURSIVE xorBits(_, _, _)
xorBits(a, b, n) ==
    IF n = 0 THEN 0
    ELSE ((a + b) % 2) + 2 * xorBits(a \div 2, b \div 2, n - 1)

RECURSIVE andBits(_, _, _)
andBits(a, b, n) ==
    IF n = 0 THEN 0
    ELSE ((a % 2) * (b % 2)) + 2 * andBits(a \div 2, b \div 2, n - 1)

wXor(a, b) == <<xorBits(a[1], b[1], 16), xorBits(a[2], b[2], 16)>>
wAnd(a, b) == <<andBits(a[1], b[1], 16), andBits(a[2], b[2], 16)>>
wNot(a) == <<65535 - a[1], 65535 - a[2]>>
wOr(a, b) == wNot(wAnd(wNot(a), wNot(b)))

\* addition modulo 2^32
wAdd(a, b) ==
    LET lo == a[2] + b[2]
    IN <<(a[1] + b[1] + (lo \div 65536)) % 65536, lo % 65536>>

\* rotation to the left by n bits, 0 < n < 32
rotlSmall(w, n) ==
    <<((w[1] * (2 ^ n)) % 65536) + (w[2] \div (2 ^ (16 - n))),
      ((w[2] * (2 ^ n)) % 65536) + (w[1] \div (2 ^ (16 - n)))>>

rotl(w, n) ==
    IF n = 16 THEN <<w[2], w[1]>>
    ELSE IF n < 16 THEN rotlSmall(w, n)
    ELSE rotlSmall(<<w[2], w[1]>>, n - 16)

\* the big-endian word at bytes k..k+3, and the bytes of a word
wordAt(bytes, k) ==
    <<bytes[k] * 256 + bytes[k + 1], bytes[k + 2] * 256 + bytes[k + 3]>>

wordBytes(w) == <<w[1] \div 256, w[1] % 256, w[2] \div 256, w[2] % 256>>

zeros(n) == [i \in 1..n |-> 0]

\* SHA-1 padding of a message shorter than 2^13 bytes: 0x80, zeros, and
\* the length in bits as 64 bits
shaPad(msg) ==
    LET l == Len(msg)
        bitsLen == l * 8
    IN msg \o <<128>> \o zeros((119 - (l % 64)) % 64) \o zeros(6)
           \o <<(bitsLen \div 256) % 256, bitsLen % 256>>

\* the sixteen words of a 64-byte block, and word t (17..80) of its
\* message schedule from the words before it
blockWords(block) ==
    SubSeq([i \in 1..16 |-> wordAt(block, 4 * i - 3)], 1, 16)

scheduleWord(W, t) ==
    rotl(wXor(wXor(W[t - 3], W[t - 8]), wXor(W[t - 14], W[t - 16])), 1)

\* 0x5A827999, 0x6ED9EBA1, 0x8F1BBCDC, 0xCA62C1D6
sha1K(t) ==
    IF t < 20 THEN <<23170, 31129>>
    ELSE IF t < 40 THEN <<28377, 60321>>
    ELSE IF t < 60 THEN <<36635, 48348>>
    ELSE <<51810, 49622>>

sha1F(t, b, c, d) ==
    IF t < 20 THEN wOr(wAnd(b, c), wAnd(wNot(b), d))
    ELSE IF t < 40 THEN wXor(wXor(b, c), d)
    ELSE IF t < 60 THEN wOr(wOr(wAnd(b, c), wAnd(b, d)), wAnd(c, d))
    ELSE wXor(wXor(b, c), d)

\* round t (0..79) on the working variables a..e
sha1Round(W, t, v) ==
    LET temp == wAdd(wAdd(wAdd(rotl(v[1], 5), sha1F(t, v[2], v[3], v[4])),
                          wAdd(v[5], W[t + 1])), sha1K(t))
    IN <<temp, v[1], rotl(v[2], 30), v[3], v[4]>>

\* 0x67452301, 0xEFCDAB89, 0x98BADCFE, 0x10325476, 0xC3D2E1F0
sha1H0 ==
    <<<<26437, 8961>>, <<61389, 43913>>, <<39098, 56574>>,
      <<4146, 21622>>, <<50130, 57840>>>>

\* SHA-1 of msg, about to start on its first block
sha1Begin(msg) ==
    LET whole == shaPad(msg)
    IN [H |-> sha1H0, W |-> blockWords(SubSeq(whole, 1, 64)),
        t |-> 0, v |-> sha1H0, rest |-> SubSeq(whole, 65, Len(whole))]

\* the chaining value after the block whose rounds are done
sha1Chain(st) == [i \in 1..5 |-> wAdd(st.H[i], st.v[i])]

sha1Digest(st) ==
    LET H == sha1Chain(st)
    IN wordBytes(H[1]) \o wordBytes(H[2]) \o wordBytes(H[3])
       \o wordBytes(H[4]) \o wordBytes(H[5])

\* the key of an HMAC padded to the block size and xor-ed with a pad byte
hmacPad(key, pad) ==
    [i \in 1..64 |-> xorBits((key \o zeros(64 - Len(key)))[i], pad, 8)]

\* buffer.writeBigUInt64BE(BigInt(counter), 0), as the mutant writes it:
\* the least significant byte first
counterBufferLE(counter) ==
    <<counter % 256, (counter \div 256) % 256, (counter \div 65536) % 256,
      (counter \div 16777216) % 256, 0, 0, 0, 0>>

\* buffer.writeBigUInt64BE(BigInt(counter), 0), counter below 2^31
counterBuffer(counter) ==
    <<0, 0, 0, 0, (counter \div 16777216) % 256, (counter \div 65536) % 256,
      (counter \div 256) % 256, counter % 256>>

(***************************************************************************)
(* TOTP engine.  The HMAC-SHA1 truncation is kept abstract: the code of a  *)
(* secret and a counter is the pair itself, so codes of distinct secrets   *)
(* or counters are distinct.                                               *)
(***************************************************************************)
PERIOD == 30
Malformed == [secret |-> 0, counter |-> 0, digits |-> 0]

generateCodeForCounter(secret, counter) ==
    [secret |-> secret, counter |-> counter, digits |-> 6]

\* Math.floor(Date.now() / 1000 / PERIOD)
currentCounter == (now \div 1000) \div PERIOD

\* a verification that compares the secret only, whatever the time step
verifyCodeAnyCounter(secret, code, tolerance) ==
    code.digits = 6 /\ code.secret = secret

\* a verification that rejects a code accepted before
verifyCodeOnce(secret, code, tolerance) ==
    /\ \E i \in (0 - tolerance)..tolerance :
          generateCodeForCounter(secret, currentCounter + i) = code
    /\ \A u \in Users : \A r \in hist.accepted[u] : r.code # code

verifyCode(secret, code, tolerance) ==
    \E i \in (0 - tolerance)..tolerance :
        generateCodeForCounter(secret, currentCounter + i) = code

\* Math.floor((time || Date.now()) / 1000 / PERIOD): a time of 0 is falsy
\* and stands for the clock, like a time that was not passed
generateCode(secret, time) ==
    generateCodeForCounter(secret,
        ((IF time = 0 THEN now ELSE time) \div 1000) \div PERIOD)

\* the codes a client may submit: any code of any secret for a time step
\* near the current one, or something that is not six characters
SubmittedCodes(secrets) ==
    { generateCodeForCounter(sec, currentCounter + i) :
        sec \in secrets, i \in {-2, -1, 0, 1, 2} } \cup {Malformed}

(***************************************************************************)
(* 2FA routes: /api/2fa/setup, /api/2fa/verify, /api/2fa/disable.          *)
(***************************************************************************)
twoFactorSetup(u, secrets, codeLists) ==
    /\ \E sec \in secrets, codes \in codeLists :
          two_factor_auth' =
              [two_factor_auth EXCEPT
                  ![u] = [secret_key |-> sec, backup_codes |-> codes,
                          is_enabled |-> FALSE]]
    /\ hist' = [hist EXCEPT !.used[u] = {}]
    /\ resp' = [op |-> "setup", user |-> u, status |-> 200]
    /\ UNCHANGED <<now, account_lockouts, user_sessions, two_factor_ok,
                   rateLimitStore, config, pending>>

\* POST /api/2fa/verify.  who: the session's user, NoUser without a
\* session; storeUp: the update of is_enabled returns no error.
\* h: the history an accepted request adds to.
twoFactorVerifyRoute(who, code, storeUp, h) ==
    LET quiet(status, valid) ==
            /\ resp' = [op |-> "verify", user |-> who, status |-> status,
                        valid |-> valid]
            /\ UNCHANGED <<two_factor_auth, two_factor_ok, hist>>
    IN /\ IF who = NoUser THEN quiet(401, FALSE)
          ELSE IF code.digits # 6 THEN quiet(400, FALSE)
          ELSE IF two_factor_auth[who] = NoRow THEN quiet(400, FALSE)
          ELSE IF ~verifyCode(two_factor_auth[who].secret_key, code, 1)
          THEN quiet(200, FALSE)
          ELSE IF ~storeUp
          THEN /\ hist' = [hist EXCEPT !.validated[who] =
                               @ \cup {two_factor_auth[who].secret_key}]
               /\ resp' = [op |-> "verify", user |-> who, status |-> 500,
                           valid |-> FALSE]
               /\ UNCHANGED <<two_factor_auth, two_factor_ok>>
          ELSE /\ two_factor_auth' =
                      [two_factor_auth EXCEPT ![who].is_enabled = TRUE]
               /\ two_factor_ok' =
                      [two_factor_ok EXCEPT ![who] = now + cookieMaxAge]
               /\ hist' = [h EXCEPT !.validated[who] =
                               @ \cup {two_factor_auth[who].secret_key}]
               /\ resp' = [op |-> "verify", user |-> who, status |-> 200,
                           valid |-> TRUE]
       /\ UNCHANGED <<now, account_lockouts, user_sessions, rateLimitStore,
                      config, pending>>

twoFactorVerifyStore(who, code, storeUp) ==
    twoFactorVerifyRoute(who, code, storeUp, hist)

twoFactorVerify(u, code) == twoFactorVerifyStore(u, code, TRUE)

\* a verify request, with the codes accepted and their instants kept in the
\* history
twoFactorVerifyRecorded(u, code) ==
    /\ Cardinality(hist.accepted[u]) < MaxAccepted
    /\ twoFactorVerifyRoute(u, code, TRUE,
           [hist EXCEPT !.accepted[u] = @ \cup {[code |-> code, at |-> now]}])

\* The two halves of a verify request that other requests overlap: the
\* select with the verification of the code (lines 21-34), then, after the
\* await, the update of is_enabled and the response (lines 36-54).  The
\* update matches the row by user_id only; with no row it updates nothing
\* and returns no error.
verifySelect(c, u, code) ==
    /\ pending[c] = Idle
    /\ code.digits = 6
    /\ two_factor_auth[u] # NoRow
    /\ verifyCode(two_factor_auth[u].secret_key, code, 1)
    /\ pending' = [pending EXCEPT
                      ![c] = [user |-> u,
                              verified |-> two_factor_auth[u].secret_key]]
    /\ hist' = [hist EXCEPT !.validated[u] =
                               @ \cup {two_factor_auth[u].secret_key}]
    /\ UNCHANGED <<now, account_lockouts, user_sessions, two_factor_auth,
                   two_factor_ok, rateLimitStore, config, resp>>

verifyUpdate(c) ==
    /\ pending[c] # Idle
    /\ LET u == pending[c].user
       IN /\ two_factor_auth' =
                 IF two_factor_auth[u] = NoRow THEN two_factor_auth
                 ELSE [two_factor_auth EXCEPT ![u].is_enabled = TRUE]
          /\ two_factor_ok' = [two_factor_ok EXCEPT ![u] = now + cookieMaxAge]
          /\ resp' = [op |-> "verify", user |-> u, status |-> 200,
                      valid |-> TRUE]
    /\ pending' = [pending EXCEPT ![c] = Idle]
    /\ UNCHANGED <<now, account_lockouts, user_sessions, rateLimitStore,
                   config, hist>>

twoFactorDisable(u) ==
    /\ two_factor_auth' = [two_factor_auth EXCEPT ![u] = NoRow]
    /\ two_factor_ok' = [two_factor_ok EXCEPT ![u] = Null]
    /\ resp' = [op |-> "disable", user |-> u, status |-> 200]
    /\ UNCHANGED <<now, account_lockouts, user_sessions, rateLimitStore,
                   config, pending, hist>>

(***************************************************************************)
(* Backup codes: TOTP.verifyBackupCode, /api/2fa/verify-backup and         *)
(* EnhancedAuthMiddleware.verify2FA.                                       *)
(***************************************************************************)
\* replace(/\s/g, '')
removeWhitespace(str) == SelectSeq(str, LAMBDA ch : ch # " ")

verifyBackupCode(providedCode, storedCodes) ==
    \E i \in 1..Len(storedCodes) :
        storedCodes[i] = removeWhitespace(toUpperCase(providedCode))

\* the filter compared with the code as submitted, not upper-cased
removeUsedCodeRaw(storedCodes, code) ==
    SelectSeq(storedCodes, LAMBDA c : c # code)

\* backup_codes.filter(c => c !== code.toUpperCase())
removeUsedCode(storedCodes, code) ==
    SelectSeq(storedCodes, LAMBDA c : c # toUpperCase(code))

\* the strings a client may submit as a backup code: the codes themselves,
\* in lower case, with a blank in them, one character short
BackupInputs ==
    BackupCodes
    \cup {Chars8("a"), Chars8("b")}
    \cup {[Chars8("A") EXCEPT ![4] = " "]}
    \cup {SubSeq(Chars8("A"), 1, BackupCodeLength - 1)}

\* POST /api/2fa/verify-backup.  storeUp: the update succeeds.
twoFactorVerifyBackup(u, code, storeUp) ==
    LET twoFA == two_factor_auth[u]
        answer(status, valid) ==
            resp' = [op |-> "verify-backup", user |-> u, code |-> code,
                     status |-> status, valid |-> valid]
    IN /\ IF Len(code) # BackupCodeLength
          THEN answer(400, FALSE) /\ UNCHANGED <<two_factor_auth, hist>>
          ELSE IF twoFA = NoRow
          THEN answer(400, FALSE) /\ UNCHANGED <<two_factor_auth, hist>>
          ELSE IF ~verifyBackupCode(code, twoFA.backup_codes)
          THEN answer(200, FALSE) /\ UNCHANGED <<two_factor_auth, hist>>
          ELSE IF ~storeUp
          THEN answer(500, FALSE) /\ UNCHANGED <<two_factor_auth, hist>>
          ELSE /\ two_factor_auth' =
                      [two_factor_auth EXCEPT ![u].backup_codes =
                          removeUsedCode(twoFA.backup_codes, code)]
               /\ hist' = [hist EXCEPT !.used[u] =
                                          @ \cup {toUpperCase(code)}]
               /\ answer(200, TRUE)
       /\ UNCHANGED <<now, account_lockouts, user_sessions, two_factor_ok,
                      rateLimitStore, config, pending>>

\* What a client may submit to verify2FA: a string of characters, and what
\* it is as a TOTP code (a backup-code string is no six-digit code).
Digits6 == [i \in 1..6 |-> "0"]

TwoFactorInputs ==
    { [chars |-> str, totp |-> Malformed] : str \in BackupInputs }
    \cup { [chars |-> Digits6, totp |-> c] :
             c \in SubmittedCodes(Secrets) \ {Malformed} }

\* EnhancedAuthMiddleware.verify2FA.  The result of its update is not read.
verify2FA(u, input, storeUp) ==
    LET twoFA == two_factor_auth[u]
        answer(valid) ==
            resp' = [op |-> "verify2FA", user |-> u, code |-> input.chars,
                     status |-> 200, valid |-> valid]
    IN /\ IF twoFA = NoRow
          THEN answer(FALSE) /\ UNCHANGED <<two_factor_auth, hist>>
          ELSE IF ~twoFA.is_enabled
          THEN answer(FALSE) /\ UNCHANGED <<two_factor_auth, hist>>
          ELSE IF /\ Len(input.chars) = BackupCodeLength
                  /\ verifyBackupCode(input.chars, twoFA.backup_codes)
          THEN /\ answer(TRUE)
               /\ IF storeUp
                  THEN /\ two_factor_auth' =
                              [two_factor_auth EXCEPT ![u].backup_codes =
                                  removeUsedCode(twoFA.backup_codes,
                                                 input.chars)]
                       /\ hist' = [hist EXCEPT !.used[u] =
                                       @ \cup {toUpperCase(input.chars)}]
                  ELSE UNCHANGED <<two_factor_auth, hist>>
          ELSE /\ answer(verifyCode(twoFA.secret_key, input.totp, 1))
               /\ UNCHANGED <<two_factor_auth, hist>>
       /\ UNCHANGED <<now, account_lockouts, user_sessions, two_factor_ok,
                      rateLimitStore, config, pending>>

\* The two halves of a backup-code verification that other requests overlap:
\* the select with verifyBackupCode and the filter of the list that was read
\* (verify-backup 21-36, verify2FA 220-235), then, after the await, the
\* update that stores the filtered list and the answer (verify-backup 37-46,
\* verify2FA 236-241).  The update matches the row by user_id only.
backupSelect(c, u, code) ==
    /\ pending[c] = Idle
    /\ Len(code) = BackupCodeLength
    /\ two_factor_auth[u] # NoRow
    /\ verifyBackupCode(code, two_factor_auth[u].backup_codes)
    /\ pending' = [pending EXCEPT
                      ![c] = [via |-> "verify-backup", user |-> u,
                              code |-> code,
                              updated |-> removeUsedCode(
                                  two_factor_auth[u].backup_codes, code)]]
    /\ UNCHANGED <<now, account_lockouts, user_sessions, two_factor_auth,
                   two_factor_ok, rateLimitStore, config, resp, hist>>

verify2FASelect(c, u, code) ==
    /\ pending[c] = Idle
    /\ two_factor_auth[u] # NoRow
    /\ two_factor_auth[u].is_enabled
    /\ Len(code) = BackupCodeLength
    /\ verifyBackupCode(code, two_factor_auth[u].backup_codes)
    /\ pending' = [pending EXCEPT
                      ![c] = [via |-> "verify2FA", user |-> u, code |-> code,
                              updated |-> removeUsedCode(
                                  two_factor_auth[u].backup_codes, code)]]
    /\ UNCHANGED <<now, account_lockouts, user_sessions, two_factor_auth,
                   two_factor_ok, rateLimitStore, config, resp, hist>>

backupUpdate(c) ==
    /\ pending[c] # Idle
    /\ LET u == pending[c].user
       IN /\ two_factor_auth' =
                 IF two_factor_auth[u] = NoRow THEN two_factor_auth
                 ELSE [two_factor_auth EXCEPT
                          ![u].backup_codes = pending[c].updated]
          /\ hist' = [hist EXCEPT !.used[u] =
                                     @ \cup {toUpperCase(pending[c].code)}]
          /\ resp' = [op |-> pending[c].via, user |-> u,
                      code |-> pending[c].code, status |-> 200,
                      valid |-> TRUE]
    /\ pending' = [pending EXCEPT ![c] = Idle]
    /\ UNCHANGED <<now, account_lockouts, user_sessions, two_factor_ok,
                   rateLimitStore, config>>

\* the browser still holds the two_factor_ok cookie it was given
holdsMarker(u) ==
    u # NoUser /\ two_factor_ok[u] # Null /\ now < two_factor_ok[u]

(***************************************************************************)
(* Security Gate: AdvancedSecurityMiddleware.handle.  A request is the     *)
(* user its session resolves to (getUser), whether it carries the          *)
(* two_factor_ok cookie, what has_active_subscription answers and whether  *)
(* validateInput finds it clean.  An outcome is the response status (0 for *)
(* null, "continue"), the checks that ran, in order, and the security      *)
(* event logged.                                                           *)
(***************************************************************************)
Requests ==
    { [user |-> u, marker |-> m, hasSubscription |-> sub, inputValid |-> v] :
        u \in GateUsers \cup {NoUser}, m \in BOOLEAN, sub \in BOOLEAN,
        v \in BOOLEAN }

gateKey == CHOOSE k \in Keys : TRUE

\* checkTwoFactorAuth(userId).enabled
checkTwoFactorAuth(u) ==
    IF two_factor_auth[u] = NoRow THEN FALSE ELSE two_factor_auth[u].is_enabled

outcome(status, ran, event) == [status |-> status, ran |-> ran, event |-> event]

\* 6. log successful access, return null
stepSuccess(req, ran) ==
    outcome(0, ran,
            IF config.logSecurityEvents THEN "successful_access" ELSE "none")

\* 5. input validation
stepInput(req, ran) ==
    IF config.validateInput
    THEN IF ~req.inputValid
         THEN outcome(400, Append(ran, "input"), "invalid_input")
         ELSE stepSuccess(req, Append(ran, "input"))
    ELSE stepSuccess(req, ran)

\* handle with input validation run ahead of the subscription check
stepSubscriptionReordered(req, ran) ==
    IF config.validateInput /\ ~req.inputValid
    THEN outcome(400, Append(ran, "input"), "invalid_input")
    ELSE IF config.requireSubscription
         THEN IF ~(req.user # NoUser /\ req.hasSubscription)
              THEN outcome(403, Append(ran, "subscription"),
                           "subscription_required")
              ELSE stepInput(req, Append(ran, "subscription"))
         ELSE stepInput(req, ran)

\* 4. subscription check (checkSubscription: no user, no subscription)
stepSubscription(req, ran) ==
    IF config.requireSubscription
    THEN IF ~(req.user # NoUser /\ req.hasSubscription)
         THEN outcome(403, Append(ran, "subscription"), "subscription_required")
         ELSE stepInput(req, Append(ran, "subscription"))
    ELSE stepInput(req, ran)

\* 2. authentication check, with 3. the two-factor check nested in it.
\* tfaUp: the two_factor_auth select answers; when it returns an error or
\* throws, checkTwoFactorAuth answers {enabled: false}.
stepAuthStore(req, ran, tfaUp) ==
    IF config.requireAuth
    THEN IF req.user = NoUser
         THEN outcome(401, Append(ran, "auth"), "unauthorized_access")
         ELSE IF config.require2FA
              THEN IF ~(tfaUp /\ checkTwoFactorAuth(req.user))
                   THEN outcome(403, ran \o <<"auth", "twoFactor">>,
                                "2fa_required")
                   ELSE stepSubscription(req, ran \o <<"auth", "twoFactor">>)
              ELSE stepSubscription(req, Append(ran, "auth"))
    ELSE stepSubscription(req, ran)

stepAuth(req, ran) == stepAuthStore(req, ran, TRUE)

\* The lookups of handle that go to the record store.
GateLookups == {"auth", "twoFactor"}

\* 1. rate limiting check, then the rest.  down: the lookups on which the
\* record store fails; with auth.getUser failing every step sees no user.
handleOutcomeStore(req, down) ==
    LET seen == IF "auth" \in down THEN [req EXCEPT !.user = NoUser] ELSE req
    IN IF config.rateLimit # Disabled
       THEN IF ~rateLimitOutcome(rateLimitStore[gateKey]).allowed
            THEN outcome(429, <<"rateLimit">>, "rate_limit_exceeded")
            ELSE stepAuthStore(seen, <<"rateLimit">>, "twoFactor" \notin down)
       ELSE stepAuthStore(seen, << >>, "twoFactor" \notin down)

handleOutcome(req) == handleOutcomeStore(req, {})

\* What each check answers for this request in this state, whether or not
\* handle gets to run it.
verdicts(req) ==
    [rateLimit |-> rateLimitOutcome(rateLimitStore[gateKey]).allowed,
     auth |-> req.user # NoUser,
     twoFactor |-> req.user # NoUser /\ checkTwoFactorAuth(req.user),
     subscription |-> req.user # NoUser /\ req.hasSubscription,
     input |-> req.inputValid]

handleStore(req, down) ==
    /\ req.marker => holdsMarker(req.user)
    /\ IF config.rateLimit # Disabled
       THEN /\ rateLimitStore' =
                   [rateLimitStore EXCEPT
                       ![gateKey] = rateLimitOutcome(rateLimitStore[gateKey]).entry]
            /\ hist' = histCall(gateKey)
       ELSE UNCHANGED <<rateLimitStore, hist>>
    /\ resp' = [op |-> "handle", out |-> handleOutcomeStore(req, down)]
    /\ UNCHANGED <<now, account_lockouts, user_sessions, two_factor_auth,
                   two_factor_ok, config, pending>>

handle(req) == handleStore(req, {})

(***************************************************************************)
(* Route middleware (src/middleware.ts).  A request adds to the above its  *)
(* path, whether its method mutates, whether the ip_blacklist holds an     *)
(* unexpired row for its address, whether its CSRF header mirrors the      *)
(* cookie, whether the account has an active or trial subscription or one  *)
(* created in the last 10 minutes, and whether it carries a fresh payment  *)
(* session cookie of the user.                                             *)
(***************************************************************************)
Paths == {"/vault/dashboard", "/account", "/settings", "/api/data",
          "/api/lemonsqueezy/webhook", "/checkout/success"}

RouteRequests ==
    { [path |-> p, mutating |-> mu, blocked |-> b, csrfOk |-> c, user |-> u,
       marker |-> m, active |-> a, recent |-> r, payment |-> pay] :
        p \in Paths, mu \in BOOLEAN, b \in BOOLEAN, c \in BOOLEAN,
        u \in GateUsers \cup {NoUser}, m \in BOOLEAN, a \in BOOLEAN,
        r \in BOOLEAN, pay \in BOOLEAN }

sensitivePath(p) == p \in {"/vault/dashboard", "/account", "/settings"}

\* What the record store does with a select: answers, returns an error
\* (data is null), or the call throws.
StoreAnswers == {"ok", "error", "throw"}

\* the 2FA enforcement block lets the request continue; tfaUp: the
\* two_factor_auth select answers (tfa is null when it returns an error)
twoFactorStepPassesStore(req, tfaUp) ==
    ~( /\ sensitivePath(req.path)
       /\ req.user # NoUser
       /\ tfaUp /\ checkTwoFactorAuth(req.user)
       /\ ~req.marker )

twoFactorStepPasses(req) == twoFactorStepPassesStore(req, TRUE)

\* store: what the record store does with the two_factor_auth select, which
\* is not inside a try block
middlewareResponseStore(req, store) ==
    IF req.blocked THEN "403 Access blocked"
    ELSE IF req.path = "/api/data" /\ req.mutating /\ ~req.csrfOk
    THEN "403 Invalid CSRF token"
    ELSE IF sensitivePath(req.path) /\ req.user # NoUser /\ store = "throw"
    THEN "500"
    ELSE IF ~twoFactorStepPassesStore(req, store = "ok")
    THEN "redirect /two-factor-auth"
    ELSE IF req.path = "/checkout/success"
    THEN IF req.user = NoUser THEN "redirect /login"
         ELSE IF req.active \/ req.recent \/ req.payment THEN "next"
         ELSE "redirect /pricing"
    ELSE IF req.path = "/vault/dashboard"
    THEN IF req.user = NoUser THEN "redirect /login"
         ELSE IF ~req.active THEN "redirect /trial"
         ELSE "next"
    ELSE "next"

middlewareResponse(req) == middlewareResponseStore(req, "ok")

middlewareStore(req, store) ==
    /\ req.marker => holdsMarker(req.user)
    /\ resp' = [op |-> "middleware",
                response |-> middlewareResponseStore(req, store)]
    /\ UNCHANGED <<now, account_lockouts, user_sessions, two_factor_auth,
                   two_factor_ok, rateLimitStore, config, pending, hist>>

middleware(req) == middlewareStore(req, "ok")

\* checkAuth when the record store fails on the account_lockouts select of
\* checkAccountLockout.  An exception reaches the catch of checkAuth; a
\* returned error leaves lockoutData undefined, which reads as "no row".
checkAuthLockoutFault(u, store) ==
    /\ store \in StoreAnswers \ {"ok"}
    /\ IF store = "throw"
       THEN /\ resp' = [op |-> "checkAuth", user |-> u,
                        authenticated |-> FALSE, minutes |-> Null]
            /\ UNCHANGED user_sessions
       ELSE /\ resp' = [op |-> "checkAuth", user |-> u,
                        authenticated |-> TRUE, minutes |-> Null]
            /\ \E capped \in
                    (IF getActiveSessionCount(u, user_sessions)
                          > maxConcurrentSessions
                     THEN terminateOldestSessions(u, maxConcurrentSessions,
                                                  user_sessions)
                     ELSE {user_sessions}) :
                  user_sessions' = updateLastActivity(u, capped)
    /\ UNCHANGED <<now, account_lockouts, two_factor_auth, two_factor_ok,
                   rateLimitStore, config, pending, hist>>

(***************************************************************************)
(* Audit.  logSecurityEvent wraps the audit write in try/catch and ignores *)
(* the result of the rpc, so it returns normally whatever the audit sink   *)
(* does.  What is recorded of a call is that it was made, with which       *)
(* event, and whether the sink stored it.                                  *)
(***************************************************************************)
AuditAnswers == {"ok", "error", "throw"}

NoAudit == [attempted |-> FALSE, event |-> "none", written |-> FALSE]

logSecurityEvent(event, sink) ==
    [attempted |-> TRUE, event |-> event, written |-> (sink = "ok")]

\* the audit call handle makes on its way to the outcome `out`
auditOf(out, sink) ==
    IF out.event = "none" THEN NoAudit ELSE logSecurityEvent(out.event, sink)

\* AdvancedSecurityMiddleware.handle, with the audit sink's behaviour
handleAudit(req, sink) ==
    /\ "require2FA" \in DOMAIN config
    /\ req.marker => holdsMarker(req.user)
    /\ IF config.rateLimit # Disabled
       THEN /\ rateLimitStore' =
                   [rateLimitStore EXCEPT
                       ![gateKey] = rateLimitOutcome(rateLimitStore[gateKey]).entry]
            /\ hist' = histCall(gateKey)
       ELSE UNCHANGED <<rateLimitStore, hist>>
    /\ resp' = [op |-> "handle", out |-> handleOutcome(req),
                audit |-> auditOf(handleOutcome(req), sink)]
    /\ UNCHANGED <<now, account_lockouts, user_sessions, two_factor_auth,
                   two_factor_ok, config, pending>>

(***************************************************************************)
(* SecurityMiddleware.handle (src/lib/security.ts): rate limit,            *)
(* authentication, subscription, input validation.  It has no audit call.  *)
(***************************************************************************)
\* new SecurityMiddleware(config)
SecurityConfigs ==
    { [requireAuth |-> a, requireSubscription |-> sub, rateLimit |-> rl,
       validateInput |-> v] :
        a \in BOOLEAN, sub \in BOOLEAN, v \in BOOLEAN,
        rl \in {Disabled, [windowMs |-> 0, maxRequests |-> CfgMaxRequests]} }

securityStepInput(req, ran) ==
    IF config.validateInput
    THEN IF ~req.inputValid
         THEN outcome(400, Append(ran, "input"), "none")
         ELSE outcome(0, Append(ran, "input"), "none")
    ELSE outcome(0, ran, "none")

securityStepSubscription(req, ran) ==
    IF config.requireSubscription
    THEN IF ~(req.user # NoUser /\ req.hasSubscription)
         THEN outcome(403, Append(ran, "subscription"), "none")
         ELSE securityStepInput(req, Append(ran, "subscription"))
    ELSE securityStepInput(req, ran)

securityStepAuth(req, ran) ==
    IF config.requireAuth
    THEN IF req.user = NoUser
         THEN outcome(401, Append(ran, "auth"), "none")
         ELSE securityStepSubscription(req, Append(ran, "auth"))
    ELSE securityStepSubscription(req, ran)

securityHandleOutcome(req) ==
    IF config.rateLimit # Disabled
    THEN IF ~rateLimitOutcome(rateLimitStore[gateKey]).allowed
         THEN outcome(429, <<"rateLimit">>, "none")
         ELSE securityStepAuth(req, <<"rateLimit">>)
    ELSE securityStepAuth(req, << >>)

\* rateLimitStore stands for the Map of security.ts when the instance is a
\* SecurityMiddleware
securityHandle(req) ==
    /\ "require2FA" \notin DOMAIN config
    /\ IF config.rateLimit # Disabled
       THEN /\ rateLimitStore' =
                   [rateLimitStore EXCEPT
                       ![gateKey] = rateLimitOutcome(rateLimitStore[gateKey]).entry]
            /\ hist' = histCall(gateKey)
       ELSE UNCHANGED <<rateLimitStore, hist>>
    /\ resp' = [op |-> "securityHandle", out |-> securityHandleOutcome(req),
                audit |-> NoAudit]
    /\ UNCHANGED <<now, account_lockouts, user_sessions, two_factor_auth,
                   two_factor_ok, config, pending>>

Next ==
    \/ TickLock
    \/ checkAuthAnonymous
    \/ \E u \in LockUsers : checkAuth(u)
    \/ \E u \in LockUsers : recordFailedAttempt(u)
    \/ \E u \in LockUsers : clearFailedAttempts(u)
    \/ \E u \in LockUsers : handleSignInError(u)
    \/ \E u \in LockUsers :
          Len(user_sessions) < MaxSignIns /\ handleSignIn(u)

Spec == Init /\ [][Next]_vars

NextRace ==
    \/ TickLock
    \/ \E c \in Calls, u \in LockUsers : recordSelect(c, u)
    \/ \E c \in Calls : recordUpsert(c)

SpecRace == Init /\ [][NextRace]_vars

\* overlapping recordFailedAttempt calls among lockout checks and clears
RaceCalls == {1, 2}

NextLockRace ==
    \/ TickLock
    \/ \E c \in RaceCalls, u \in LockUsers :
          /\ IF account_lockouts[u] = NoRow THEN TRUE
             ELSE account_lockouts[u].failed_attempts < MaxRecorded
          /\ recordSelect(c, u)
    \/ \E c \in Calls : recordUpsert(c)
    \/ \E u \in LockUsers : checkAuth(u)
    \/ \E u \in LockUsers : clearFailedAttempts(u)

SpecLockRace == Init /\ [][NextLockRace]_vars

\* a middleware instance built with a caller-supplied rateLimit
RateConfigs ==
    { [windowMs |-> w, maxRequests |-> m] :
        w \in {0, 60 * 1000, lockoutDuration}, m \in 0..CfgMaxRequests }

InitRate ==
    /\ InitStores
    /\ \E rl \in RateConfigs : config = [defaultConfig EXCEPT !.rateLimit = rl]

NextRate ==
    \/ Tick
    \/ \E k \in Keys : checkRateLimit(k)

SpecRate == InitRate /\ [][NextRate]_vars

\* requests on one key arriving and being checked in any order
RaceRateConfigs ==
    { [windowMs |-> w, maxRequests |-> m] :
        w \in {60 * 1000, lockoutDuration}, m \in 1..CfgMaxRequests }

InitRateRace ==
    /\ InitStores
    /\ \E rl \in RaceRateConfigs :
          config = [defaultConfig EXCEPT !.rateLimit = rl]

\* instants at and just after the ends of three consecutive windows
WindowInstants ==
    { j + m * effWindowMs : j \in 0..2, m \in 0..2 }

TickWindow ==
    /\ \E t \in WindowInstants : t > now /\ now' = t
    /\ UNCHANGED <<account_lockouts, user_sessions, two_factor_auth,
                   two_factor_ok, rateLimitStore, config, pending, resp, hist>>

NextRateRace ==
    \/ TickWindow
    \/ \E c \in RaceCalls, k \in Keys : rateLimitArrive(c, k)
    \/ \E c \in Calls : rateLimitRun(c)

SpecRateRace == InitRateRace /\ [][NextRateRace]_vars

\* The gate reads is_enabled only, never secret_key or backup_codes: in
\* front of the gate one secret and one list of backup codes stand for all.
GateSecrets == {1}
GateBackupCodeLists == {[i \in 1..MaxBackup |-> Chars8("A")]}

\* a middleware instance built with any combination of the config flags
GateConfigs ==
    { [requireAuth |-> a, requireSubscription |-> sub, require2FA |-> t,
       rateLimit |-> rl, validateInput |-> v, logSecurityEvents |-> TRUE] :
        a \in BOOLEAN, sub \in BOOLEAN, t \in BOOLEAN, v \in BOOLEAN,
        rl \in {Disabled, [windowMs |-> 0, maxRequests |-> CfgMaxRequests]} }

GateInstants == { k * lockoutDuration : k \in 0..(MaxPeriods + 1) }

TickGate ==
    /\ \E t \in GateInstants : t > now /\ now' = t
    /\ UNCHANGED <<account_lockouts, user_sessions, two_factor_auth,
                   two_factor_ok, rateLimitStore, config, pending, resp, hist>>

InitGate ==
    /\ InitStores
    /\ config \in GateConfigs

NextGate ==
    \/ TickGate
    \/ \E req \in Requests : handle(req)
    \/ \E u \in GateUsers : twoFactorSetup(u, GateSecrets, GateBackupCodeLists)
    \/ \E u \in GateUsers : \E code \in SubmittedCodes(GateSecrets) :
          twoFactorVerify(u, code)
    \/ \E u \in GateUsers : twoFactorDisable(u)

SpecGate == InitGate /\ [][NextGate]_vars

\* the gate in front of accounts that collect failed attempts
NextGateLock ==
    \/ TickGate
    \/ \E req \in Requests : handle(req)
    \/ \E u \in GateUsers : recordFailedAttempt(u)

SpecGateLock == InitGate /\ [][NextGateLock]_vars

NextRoute ==
    \/ TickGate
    \/ \E req \in RouteRequests : middleware(req)
    \/ \E u \in GateUsers : twoFactorSetup(u, Secrets, BackupCodeLists)
    \/ \E u \in GateUsers : \E code \in SubmittedCodes(Secrets) :
          twoFactorVerify(u, code)
    \/ \E u \in GateUsers : twoFactorDisable(u)

SpecRoute == Init /\ [][NextRoute]_vars

NextSessions ==
    \/ Tick
    \/ \E u \in Users : checkAuth(u)
    \/ \E u \in Users : handleSignIn(u)

SpecSessions == Init /\ [][NextSessions]_vars

\* sign-ins and terminateOldestSessions calls with any keepCount
KeepCounts == 0..MaxKeep
SessionInstants == {0, 1, 2}
TickSession ==
    /\ \E t \in SessionInstants : t > now /\ now' = t
    /\ UNCHANGED <<account_lockouts, user_sessions, two_factor_auth,
                   two_factor_ok, rateLimitStore, config, pending, resp, hist>>

NextTerminate ==
    \/ TickSession
    \/ \E u \in Users : Len(user_sessions) <= MaxKeep /\ handleSignIn(u)
    \/ \E u \in Users, keepCount \in KeepCounts :
          terminateOldestSessionsCall(u, keepCount)

SpecTerminate == Init /\ [][NextTerminate]_vars

\* sign-ins of two accounts, failed attempts that lock one of them, and
\* checkAuth, at instants around a lock's deadline
ActivityInstants == {0, 1, lockoutDuration + 1}
TickActivity ==
    /\ \E t \in ActivityInstants : t > now /\ now' = t
    /\ UNCHANGED <<account_lockouts, user_sessions, two_factor_auth,
                   two_factor_ok, rateLimitStore, config, pending, resp, hist>>

NextActivity ==
    \/ TickActivity
    \/ \E u \in Users : checkAuth(u)
    \/ \E u \in Users :
          Len(user_sessions) <= maxConcurrentSessions /\ handleSignIn(u)
    \/ \E u \in LockUsers : recordFailedAttempt(u)

SpecActivity == Init /\ [][NextActivity]_vars

\* the requests that reach the 2FA enforcement block of the route middleware
SensitiveRequests ==
    { req \in RouteRequests :
        sensitivePath(req.path) /\ ~req.blocked /\ ~req.mutating /\ req.csrfOk }

\* a gate whose only enabled checks are those that read the record store
InitStoreFault ==
    /\ InitStores
    /\ config \in { c \in GateConfigs :
                       /\ c.rateLimit = Disabled
                       /\ ~c.requireSubscription
                       /\ ~c.validateInput }

\* the critical-path checks in front of a record store that fails
NextStoreFault ==
    \/ TickGate
    \/ \E u \in GateUsers : recordFailedAttempt(u)
    \/ \E u \in GateUsers : twoFactorSetup(u, GateSecrets, GateBackupCodeLists)
    \/ \E u \in GateUsers : \E code \in SubmittedCodes(GateSecrets) :
          twoFactorVerify(u, code)
    \/ \E u \in GateUsers, store \in StoreAnswers \ {"ok"} :
          checkAuthLockoutFault(u, store)
    \/ \E req \in Requests, down \in (SUBSET GateLookups) \ {{}} :
          handleStore(req, down)
    \/ \E req \in SensitiveRequests, store \in StoreAnswers \ {"ok"} :
          middlewareStore(req, store)

SpecStoreFault == InitStoreFault /\ [][NextStoreFault]_vars

\* the 2FA routes and verify2FA, one request at a time
NextBackup ==
    \/ TickGate
    \/ \E u \in GateUsers : twoFactorSetup(u, GateSecrets, BackupCodeLists)
    \/ \E u \in GateUsers : \E code \in SubmittedCodes(GateSecrets) :
          twoFactorVerify(u, code)
    \/ \E u \in GateUsers, code \in BackupInputs, storeUp \in BOOLEAN :
          twoFactorVerifyBackup(u, code, storeUp)
    \/ \E u \in GateUsers, input \in TwoFactorInputs, storeUp \in BOOLEAN :
          verify2FA(u, input, storeUp)
    \/ \E u \in GateUsers : twoFactorDisable(u)

SpecBackup == Init /\ [][NextBackup]_vars

\* backup-code verifications of one account, overlapping
NextBackupRace ==
    \/ TickGate
    \/ \E u \in GateUsers : twoFactorSetup(u, GateSecrets, BackupCodeLists)
    \/ \E u \in GateUsers : \E code \in SubmittedCodes(GateSecrets) :
          twoFactorVerify(u, code)
    \/ \E c \in Calls, u \in GateUsers, code \in BackupInputs :
          backupSelect(c, u, code)
    \/ \E c \in Calls, u \in GateUsers, code \in BackupInputs :
          verify2FASelect(c, u, code)
    \/ \E c \in Calls : backupUpdate(c)

SpecBackupRace == Init /\ [][NextBackupRace]_vars

\* TOTP.generateCode and TOTP.verifyCode called at whole seconds
Seconds == 0..MaxSeconds

TickSecond ==
    /\ now + 1000 <= MaxSeconds * 1000
    /\ now' = now + 1000
    /\ UNCHANGED <<account_lockouts, user_sessions, two_factor_auth,
                   two_factor_ok, rateLimitStore, config, pending, resp, hist>>

\* code = TOTP.generateCode(secret, t)
totpGenerate(secret, t) ==
    /\ resp' = [op |-> "generateCode", secret |-> secret, t |-> t,
                code |-> generateCode(secret, t)]
    /\ UNCHANGED <<now, account_lockouts, user_sessions, two_factor_auth,
                   two_factor_ok, rateLimitStore, config, pending, hist>>

\* TOTP.verifyCode(secret, code) of the code generated last
totpVerify ==
    /\ resp.op \in {"generateCode", "verifyCode"}
    /\ resp' = [op |-> "verifyCode", secret |-> resp.secret, t |-> resp.t,
                code |-> resp.code,
                ok |-> verifyCode(resp.secret, resp.code, 1)]
    /\ UNCHANGED <<now, account_lockouts, user_sessions, two_factor_auth,
                   two_factor_ok, rateLimitStore, config, pending, hist>>

NextTotp ==
    \/ TickSecond
    \/ \E secret \in GateSecrets, s \in Seconds :
          totpGenerate(secret, s * 1000)
    \/ totpVerify

SpecTotp == Init /\ [][NextTotp]_vars

\* verify requests of one account at instants half a time step apart
TickHalfStep ==
    /\ now + 500 * PERIOD <= MaxSeconds * 1000
    /\ now' = now + 500 * PERIOD
    /\ UNCHANGED <<account_lockouts, user_sessions, two_factor_auth,
                   two_factor_ok, rateLimitStore, config, pending, resp, hist>>

NextReplay ==
    \/ TickHalfStep
    \/ \E u \in GateUsers : twoFactorSetup(u, GateSecrets, GateBackupCodeLists)
    \/ \E u \in GateUsers : \E code \in SubmittedCodes(GateSecrets) :
          twoFactorVerifyRecorded(u, code)
    \/ \E u \in GateUsers : twoFactorDisable(u)

SpecReplay == Init /\ [][NextReplay]_vars

\* base32Encode and base32Decode applied to a buffer
InitBase32 ==
    /\ EmptyStores
    /\ config = defaultConfig
    /\ resp \in { [op |-> "buffer", b |-> b] : b \in Buffers }

encodeCall ==
    /\ resp.op = "buffer"
    /\ resp' = [op |-> "base32Encode", b |-> resp.b,
                text |-> base32Encode(resp.b)]
    /\ UNCHANGED <<now, account_lockouts, user_sessions, two_factor_auth,
                   two_factor_ok, rateLimitStore, config, pending, hist>>

padCall ==
    /\ resp.op = "base32Encode"
    /\ Len(resp.text) % 8 # 0
    /\ resp' = [op |-> "padded", b |-> resp.b, text |-> padded(resp.text)]
    /\ UNCHANGED <<now, account_lockouts, user_sessions, two_factor_auth,
                   two_factor_ok, rateLimitStore, config, pending, hist>>

decodeCall ==
    /\ resp.op \in {"base32Encode", "padded"}
    /\ resp' = [op |-> "base32Decode", b |-> resp.b, text |-> resp.text,
                bytes |-> base32Decode(resp.text)]
    /\ UNCHANGED <<now, account_lockouts, user_sessions, two_factor_auth,
                   two_factor_ok, rateLimitStore, config, pending, hist>>

NextBase32 == encodeCall \/ padCall \/ decodeCall

SpecBase32 == InitBase32 /\ [][NextBase32]_vars

\* the truncation applied to a digest
InitTruncate ==
    /\ EmptyStores
    /\ config = defaultConfig
    /\ resp \in { [op |-> "digest", hash |-> h] : h \in Hashes }

truncateCall ==
    /\ resp.op = "digest"
    /\ resp' = [op |-> "generateCodeForCounter", hash |-> resp.hash,
                code |-> truncate(resp.hash)]
    /\ UNCHANGED <<now, account_lockouts, user_sessions, two_factor_auth,
                   two_factor_ok, rateLimitStore, config, pending, hist>>

NextTruncate == truncateCall

SpecTruncate == InitTruncate /\ [][NextTruncate]_vars

\* generateCodeForCounter with the digest computed: secret is the Base32
\* string, counter the time step
TestSecret ==
    <<"G", "E", "Z", "D", "G", "N", "B", "V", "G", "Y", "3", "T", "Q", "O",
      "J", "Q", "G", "E", "Z", "D", "G", "N", "B", "V", "G", "Y", "3", "T",
      "Q", "O", "J", "Q">>

TestCounters == (0..MaxCounter) \cup {37037036, 37037037}

InitHotp ==
    /\ EmptyStores
    /\ config = defaultConfig
    /\ resp \in { [op |-> "counter", secret |-> TestSecret, counter |-> c] :
                     c \in TestCounters }

\* lines 76-79: the counter buffer and the key
keyCall ==
    /\ resp.op = "counter"
    /\ resp' = [op |-> "key", counter |-> resp.counter,
                buffer |-> counterBuffer(resp.counter),
                key |-> base32Decode(resp.secret)]
    /\ UNCHANGED <<now, account_lockouts, user_sessions, two_factor_auth,
                   two_factor_ok, rateLimitStore, config, pending, hist>>

\* lines 80-81: the inner hash begun
hmacStart ==
    /\ resp.op = "key"
    /\ resp' = [op |-> "sha1", counter |-> resp.counter, key |-> resp.key,
                outer |-> FALSE,
                sha1 |-> sha1Begin(hmacPad(resp.key, 54) \o resp.buffer)]
    /\ UNCHANGED <<now, account_lockouts, user_sessions, two_factor_auth,
                   two_factor_ok, rateLimitStore, config, pending, hist>>

shaRound ==
    /\ resp.op = "sha1"
    /\ resp.sha1.t < 80
    /\ LET t == resp.sha1.t
           W == IF t < 16 THEN resp.sha1.W
                ELSE Append(resp.sha1.W, scheduleWord(resp.sha1.W, t + 1))
       IN resp' = [resp EXCEPT !.sha1.W = W,
                               !.sha1.v = sha1Round(W, t, @),
                               !.sha1.t = t + 1]
    /\ UNCHANGED <<now, account_lockouts, user_sessions, two_factor_auth,
                   two_factor_ok, rateLimitStore, config, pending, hist>>

shaBlock ==
    /\ resp.op = "sha1"
    /\ resp.sha1.t = 80
    /\ Len(resp.sha1.rest) > 0
    /\ resp' = [resp EXCEPT
                   !.sha1 = [H |-> sha1Chain(resp.sha1),
                             W |-> blockWords(SubSeq(resp.sha1.rest, 1, 64)),
                             t |-> 0, v |-> sha1Chain(resp.sha1),
                             rest |-> SubSeq(resp.sha1.rest, 65,
                                             Len(resp.sha1.rest))]]
    /\ UNCHANGED <<now, account_lockouts, user_sessions, two_factor_auth,
                   two_factor_ok, rateLimitStore, config, pending, hist>>

\* the inner hash done: the outer hash begun; the outer hash done:
\* hmac.digest() returns and lines 84-90 truncate it
shaDone ==
    /\ resp.op = "sha1"
    /\ resp.sha1.t = 80
    /\ Len(resp.sha1.rest) = 0
    /\ IF ~resp.outer
       THEN resp' = [resp EXCEPT
                       !.outer = TRUE,
                       !.sha1 = sha1Begin(hmacPad(resp.key, 92)
                                          \o sha1Digest(resp.sha1))]
       ELSE resp' = [op |-> "hotp", counter |-> resp.counter,
                     hash |-> sha1Digest(resp.sha1),
                     code |-> truncate(sha1Digest(resp.sha1))]
    /\ UNCHANGED <<now, account_lockouts, user_sessions, two_factor_auth,
                   two_factor_ok, rateLimitStore, config, pending, hist>>

NextHotp == keyCall \/ hmacStart \/ shaRound \/ shaBlock \/ shaDone

SpecHotp == InitHotp /\ [][NextHotp]_vars

\* the verify route with and without a session, its update failing or not
NextVerify ==
    \/ TickGate
    \/ \E u \in GateUsers : twoFactorSetup(u, Secrets, GateBackupCodeLists)
    \/ \E who \in GateUsers \cup {NoUser} :
       \E code \in SubmittedCodes(Secrets), storeUp \in BOOLEAN :
          twoFactorVerifyStore(who, code, storeUp)
    \/ \E u \in GateUsers : twoFactorDisable(u)

SpecVerify == Init /\ [][NextVerify]_vars

\* setup, verify and disable requests of one account, overlapping
NextTwoFactorRace ==
    \/ TickGate
    \/ \E u \in GateUsers : twoFactorSetup(u, Secrets, BackupCodeLists)
    \/ \E u \in GateUsers : \E code \in SubmittedCodes(Secrets) :
          twoFactorVerify(u, code)
    \/ \E c \in Calls, u \in GateUsers : \E code \in SubmittedCodes(Secrets) :
          verifySelect(c, u, code)
    \/ \E c \in Calls : verifyUpdate(c)
    \/ \E u \in GateUsers : twoFactorDisable(u)

SpecTwoFactorRace == Init /\ [][NextTwoFactorRace]_vars

\* a route guarded by one of the two middlewares, with an audit sink that
\* may fail
InitAudit ==
    /\ InitStores
    /\ config \in GateConfigs \cup SecurityConfigs

NextAudit ==
    \/ TickGate
    \/ \E u \in GateUsers : twoFactorSetup(u, GateSecrets, GateBackupCodeLists)
    \/ \E u \in GateUsers : \E code \in SubmittedCodes(GateSecrets) :
          twoFactorVerify(u, code)
    \/ \E req \in Requests, sink \in AuditAnswers : handleAudit(req, sink)
    \/ \E req \in Requests : securityHandle(req)

SpecAudit == InitAudit /\ [][NextAudit]_vars

(***************************************************************************)
(* Properties.                                                             *)
(***************************************************************************)
\* the request got past the gate's two-factor step
pastTwoFactor(out) ==
    out.event \notin {"rate_limit_exceeded", "unauthorized_access",
                      "2fa_required"}

\* C1: when the route requires 2FA and the account's credential is
\* enabled, a request gets past the two-factor step only if it carries the
\* 2FA-satisfied marker; this holds of the Security Gate and of the route
\* middleware.
C1_TwoFactorNeedsMarker ==
    [][ /\ \A req \in Requests :
             ( /\ handle(req)
               /\ config.requireAuth
               /\ config.require2FA
               /\ req.user # NoUser
               /\ checkTwoFactorAuth(req.user)
               /\ pastTwoFactor(resp'.out) )
             => req.marker
        /\ \A req \in RouteRequests :
             ( /\ middleware(req)
               /\ sensitivePath(req.path)
               /\ req.user # NoUser
               /\ checkTwoFactorAuth(req.user)
               /\ resp'.response \notin {"403 Access blocked",
                                          "403 Invalid CSRF token",
                                          "redirect /two-factor-auth"} )
             => req.marker ]_vars

C3_RowDeletedOnlyBySuccessOrExpiry ==
    [][\A u \in LockUsers :
          (account_lockouts[u] # NoRow /\ account_lockouts'[u] = NoRow)
          => \/ resp'.op \in {"clearFailedAttempts", "handleSignIn"}
             \/ /\ resp'.op = "checkAuth"
                /\ account_lockouts[u].locked_until # Null
                /\ now >= account_lockouts[u].locked_until]_vars

\* C4: when every overlapping recordFailedAttempt call has completed, the
\* stored failed_attempts equals the number of calls made, and 5 calls
\* have produced a lock.
C4_NoLostFailedAttempt ==
    \A u \in LockUsers :
        (\A c \in Calls : pending[c] = Idle) /\ hist.recorded[u] > 0
        => /\ account_lockouts[u] # NoRow
           /\ account_lockouts[u].failed_attempts = hist.recorded[u]
           /\ hist.recorded[u] >= maxFailedAttempts
              => account_lockouts[u].locked_until # Null

\* C5: while an account is locked (locked_until set and not yet passed)
\* every authentication attempt for it is denied, with the minutes that
\* remain, and no check or sign-in removes its lockout row.
C5_LockedUntilDeadline ==
    [][\A u \in LockUsers :
          isLocked(u)
          => /\ resp'.op \in {"checkAuth", "handleSignIn"}
                => account_lockouts'[u] # NoRow
             /\ (resp'.op = "checkAuth" /\ resp'.user = u)
                => (~resp'.authenticated /\ resp'.minutes >= 1)
             /\ (resp'.op = "handleSignIn" /\ resp'.user = u)
                => ~resp'.signedIn]_vars

\* C6: for every key and window, the calls made within a window are
\* allowed up to the maxRequests-th and rejected from then on, and the
\* first call after the window has elapsed (now > resetTime) is allowed and
\* leaves count = 1 and resetTime = now + windowMs.
C6_ExactlyMaxRequestsPerWindow ==
    \A k \in Keys :
        LET w == hist.win[k]
            e == rateLimitStore[k]
        IN /\ (e = NoRow) <=> (w.start = Null)
           /\ e # NoRow
              => /\ e.resetTime = w.start + effWindowMs
                 /\ e.count = IF w.calls > effMaxRequests
                              THEN effMaxRequests ELSE w.calls
           /\ (resp.op = "checkRateLimit" /\ resp.key = k)
              => /\ resp.allowed <=> (w.calls <= effMaxRequests)
                 /\ (resp.at = w.start /\ w.calls = 1)
                    => e = [count |-> 1, resetTime |-> resp.at + effWindowMs]

\* C6 witness: after a window elapsed a new one was opened, and a call in
\* the new window was rejected again.
C6_Witness ==
    \E k \in Keys :
        /\ resp.op = "checkRateLimit"
        /\ ~resp.allowed
        /\ hist.win[k].start > effWindowMs
        /\ rateLimitStore[k].count = effMaxRequests

\* C7: every rejected call returns retryAfter = ceil((resetTime - now) /
\* 1000), and that value is strictly greater than 0.
C7_RetryAfterPositive ==
    (resp.op = "checkRateLimit" /\ ~resp.allowed)
    => /\ resp.retryAfter
            = Ceil(rateLimitStore[resp.key].resetTime - resp.at, 1000)
       /\ resp.retryAfter > 0

Checks == <<"rateLimit", "auth", "twoFactor", "subscription", "input">>

denyStatus ==
    [rateLimit |-> 429, auth |-> 401, twoFactor |-> 403,
     subscription |-> 403, input |-> 400]

\* the checks the configuration switches on, in pipeline order, the
\* two-factor check being on when twoFactorOn says so
enabledChecks(twoFactorOn) ==
    LET on(c) == CASE c = "rateLimit" -> config.rateLimit # Disabled
                   [] c = "auth" -> config.requireAuth
                   [] c = "twoFactor" -> twoFactorOn
                   [] c = "subscription" -> config.requireSubscription
                   [] c = "input" -> config.validateInput
    IN SelectSeq(Checks, on)

\* out is what a pipeline over the checks E returns when the checks
\* answer v: the checks up to the first failing one ran, in order, and its
\* deny status is returned; with no failing check all ran and out allows.
followsPipeline(E, v, out) ==
    LET failing == { i \in 1..Len(E) : ~v[E[i]] }
    IN IF failing = {}
       THEN out.status = 0 /\ out.ran = E
       ELSE LET f == CHOOSE i \in failing : \A j \in failing : i <= j
            IN out.ran = SubSeq(E, 1, f) /\ out.status = denyStatus[E[f]]

\* C9 as stated: handle evaluates the checks its configuration enables in
\* the order rate limit, authentication, two-factor, subscription, input
\* validation, returns the deny status of the first that fails without
\* running a later one, and allows only when none fails.
C9_FixedOrderAllEnabled ==
    [][\A req \in Requests :
          handle(req)
          => followsPipeline(enabledChecks(config.require2FA),
                             verdicts(req), resp'.out)]_vars

\* C9 amended: the same, the two-factor check being evaluated only when
\* requireAuth is set as well as require2FA.
C9_FixedOrderNestedTwoFactor ==
    [][\A req \in Requests :
          handle(req)
          => followsPipeline(
                 enabledChecks(config.requireAuth /\ config.require2FA),
                 verdicts(req), resp'.out)]_vars

\* C9 witness: a request passed the rate limit, authentication and the
\* two-factor check and was denied by the subscription check.
C9_Witness ==
    /\ resp.op = "handle"
    /\ resp.out.status = 403
    /\ resp.out.ran = <<"rateLimit", "auth", "twoFactor", "subscription">>
    /\ config.validateInput

\* C10: the gate answers 401 to every authenticated request of an account
\* whose lockout is active, and does not run the two-factor check for it.
C10_LockedAccountDenied ==
    [][\A req \in Requests :
          ( /\ handle(req)
            /\ config.requireAuth
            /\ req.user # NoUser
            /\ isLocked(req.user)
            /\ resp'.out.status # 429 )
          => /\ resp'.out.status = 401
             /\ \A i \in 1..Len(resp'.out.ran) :
                    resp'.out.ran[i] # "twoFactor"]_vars

\* C8: the number of active sessions of an account never exceeds
\* maxConcurrentSessions.
C8_ActiveSessionsCapped ==
    \A u \in Users :
        getActiveSessionCount(u, user_sessions) <= maxConcurrentSessions

\* C11: a request is denied when the record store fails (returns an error
\* or throws) on the lockout check of a locked account, on the gate's
\* authentication or 2FA lookup, or on the route middleware's 2FA lookup
\* for an account with an enabled credential and no marker.
C11_StoreFailureDenies ==
    [][ /\ \A u \in GateUsers, store \in StoreAnswers \ {"ok"} :
             (checkAuthLockoutFault(u, store) /\ isLocked(u))
             => ~resp'.authenticated
        /\ \A req \in Requests, down \in (SUBSET GateLookups) \ {{}} :
             ( /\ handleStore(req, down)
               /\ config.requireAuth
               /\ "twoFactor" \in down => config.require2FA )
             => resp'.out.status # 0
        /\ \A req \in SensitiveRequests, store \in StoreAnswers \ {"ok"} :
             ( /\ middlewareStore(req, store)
               /\ sensitivePath(req.path)
               /\ req.user # NoUser
               /\ checkTwoFactorAuth(req.user)
               /\ ~req.marker )
             => resp'.response # "next" ]_vars

\* the event handle logs for the check that denies
denyEvent ==
    [rateLimit |-> "rate_limit_exceeded", auth |-> "unauthorized_access",
     twoFactor |-> "2fa_required", subscription |-> "subscription_required",
     input |-> "invalid_input"]

\* C12: every deny response of the gate comes after an attempt to emit the
\* security event of the failing step, and the response is the one
\* returned when the audit write succeeds, whatever the audit sink does;
\* this holds of AdvancedSecurityMiddleware.handle and of
\* SecurityMiddleware.handle.
C12_DenyAfterAuditAttempt ==
    [][ /\ \A req \in Requests, sink \in AuditAnswers :
             (handleAudit(req, sink) /\ resp'.out.status # 0)
             => /\ resp'.audit.attempted
                /\ resp'.audit.event
                     = denyEvent[resp'.out.ran[Len(resp'.out.ran)]]
                /\ resp'.out = handleOutcome(req)
        /\ \A req \in Requests :
             (securityHandle(req) /\ resp'.out.status # 0)
             => resp'.audit.attempted ]_vars

\* C13: in every reachable state, under any interleaving of setup, verify
\* and disable requests of one account, an enabled credential holds a
\* secret against which a submitted code was verified.
C13_EnabledSecretWasValidated ==
    \A u \in GateUsers :
        (two_factor_auth[u] # NoRow /\ two_factor_auth[u].is_enabled)
        => two_factor_auth[u].secret_key \in hist.validated[u]
\* C14: when a disable request has just answered, the account has no
\* credential and its session holds no two_factor_ok marker; and in no
\* reachable state is the marker attached to the session of an account
\* whose credential has been deleted.
C14_DisableRevokesGrant ==
    \A u \in GateUsers :
        /\ (resp.op = "disable" /\ resp.user = u)
           => (two_factor_auth[u] = NoRow /\ two_factor_ok[u] = Null)
        /\ two_factor_auth[u] = NoRow => two_factor_ok[u] = Null
\* C15: once a backup-code submission has succeeded and the stored list
\* has been updated, every later submission of that code for the account
\* fails, through the verify-backup route and through verify2FA, and the
\* stored list no longer holds the code.
C15_BackupCodeSingleUse ==
    [][/\ ( /\ resp'.op = "verify-backup"
             /\ removeWhitespace(toUpperCase(resp'.code))
                  \in hist.used[resp'.user]
             /\ \E storeUp \in BOOLEAN :
                   twoFactorVerifyBackup(resp'.user, resp'.code, storeUp) )
          => ~resp'.valid
       /\ ( /\ resp'.op = "verify2FA"
             /\ removeWhitespace(toUpperCase(resp'.code))
                  \in hist.used[resp'.user]
             /\ \E storeUp \in BOOLEAN :
                \E input \in {i \in TwoFactorInputs : i.chars = resp'.code} :
                   verify2FA(resp'.user, input, storeUp) )
          => ~resp'.valid
       /\ \A u \in GateUsers :
             two_factor_auth'[u] # NoRow
             => \A c \in hist'.used[u] :
                    ~verifyBackupCode(c, two_factor_auth'[u].backup_codes)
      ]_vars

\* C15 witness: a backup code that an earlier submission consumed was
\* submitted again, in lower case, and answered valid: false, while the
\* list still holds another code.
C15_Witness ==
    /\ resp.op \in {"verify-backup", "verify2FA"}
    /\ resp.status = 200
    /\ ~resp.valid
    /\ resp.code = Chars8("a")
    /\ Chars8("A") \in hist.used[resp.user]
    /\ two_factor_auth[resp.user] # NoRow
    /\ Len(two_factor_auth[resp.user].backup_codes) > 0
\* C16: a verify request of a signed-in user whose row exists and whose
\* six-digit code is not the code of the row's secret for the current time
\* step or a neighbouring one answers 200 with valid: false and leaves the
\* credential and the two_factor_ok marker as they were; a verify request
\* answers valid: true only for a signed-in user, a code that is the
\* secret's code within one time step and an update that returned no
\* error, and only such a request attaches the marker.
wrongCode(who, code) ==
    /\ who # NoUser
    /\ code.digits = 6
    /\ two_factor_auth[who] # NoRow
    /\ \/ code.secret # two_factor_auth[who].secret_key
       \/ code.counter < currentCounter - 1
       \/ code.counter > currentCounter + 1

C16_WrongCodeChangesNothing ==
    [][/\ \A who \in GateUsers \cup {NoUser} :
          \A code \in SubmittedCodes(Secrets), storeUp \in BOOLEAN :
             ( /\ resp'.op = "verify"
               /\ resp'.user = who
               /\ twoFactorVerifyStore(who, code, storeUp) )
             => /\ wrongCode(who, code)
                   => /\ resp'.status = 200
                      /\ ~resp'.valid
                      /\ two_factor_auth' = two_factor_auth
                      /\ two_factor_ok' = two_factor_ok
                /\ resp'.valid
                   => /\ who # NoUser
                      /\ ~wrongCode(who, code)
                      /\ storeUp
                      /\ two_factor_auth'[who].is_enabled
                /\ ~resp'.valid => two_factor_ok' = two_factor_ok
       /\ \A u \in GateUsers :
             (two_factor_ok'[u] # Null /\ two_factor_ok'[u] # two_factor_ok[u])
             => (resp'.op = "verify" /\ resp'.user = u /\ resp'.valid)
      ]_vars

\* C16 witness: an enabled credential, a marker issued earlier, and a
\* verify request with a wrong code that answered 200, valid: false.
C16_Witness ==
    /\ resp.op = "verify"
    /\ resp.user \in GateUsers
    /\ resp.status = 200
    /\ ~resp.valid
    /\ two_factor_auth[resp.user] # NoRow
    /\ two_factor_auth[resp.user].is_enabled
    /\ two_factor_ok[resp.user] # Null
\* C17: verifyCode with tolerance 1, called at time now on the code that
\* generateCode returned for time t, answers true whenever the 30-second
\* steps of now and t differ by at most one, and false whenever now and t
\* are 61 seconds or more apart.
C17_AcceptanceWindow ==
    [][(resp'.op = "verifyCode" /\ totpVerify)
       => LET t == resp'.t
              stepOf(ms) == (ms \div 1000) \div PERIOD
              apart == IF now >= t THEN now - t ELSE t - now
          IN /\ (stepOf(now) - stepOf(t) \in {-1, 0, 1}) => resp'.ok
             /\ apart >= 61 * 1000 => ~resp'.ok
      ]_vars
\* C18: decoding the Base32 encoding of a buffer, with or without '='
\* appended up to a multiple of eight characters, gives back the buffer.
C18_Base32RoundTrip ==
    resp.op = "base32Decode" => resp.bytes = resp.b

\* C18 witness: a buffer of five bytes or more, so that the accumulator
\* has overflowed its 32 bits, decoded from its padded encoding.
C18_Witness ==
    /\ resp.op = "base32Decode"
    /\ Len(resp.b) >= 5
    /\ 255 \in {resp.b[i] : i \in 1..Len(resp.b)}
    /\ resp.text[Len(resp.text)] = "="
    /\ resp.bytes = resp.b
\* C19: the code returned for a digest is six decimal digits, and read as
\* a number it is the big-endian value of the four bytes at the offset
\* given by the low four bits of the last byte, the top bit of the first
\* of them cleared, modulo 10^6.
C19_SixDigitTruncation ==
    resp.op = "generateCodeForCounter"
    => LET h == resp.hash
           o == h[20] % 16
           value == (h[o + 1] % 128) * (2 ^ 24) + h[o + 2] * (2 ^ 16)
                    + h[o + 3] * (2 ^ 8) + h[o + 4]
           digit == [c \in {"0", "1", "2", "3", "4", "5", "6", "7", "8", "9"}
                       |-> CASE c = "0" -> 0 [] c = "1" -> 1 [] c = "2" -> 2
                             [] c = "3" -> 3 [] c = "4" -> 4 [] c = "5" -> 5
                             [] c = "6" -> 6 [] c = "7" -> 7 [] c = "8" -> 8
                             [] c = "9" -> 9]
           c == resp.code
       IN /\ Len(c) = 6
          /\ \A i \in 1..6 : c[i] \in DOMAIN digit
          /\ digit[c[1]] * 100000 + digit[c[2]] * 10000 + digit[c[3]] * 1000
             + digit[c[4]] * 100 + digit[c[5]] * 10 + digit[c[6]]
             = value % 1000000

\* C19 witness: the four bytes at a non-zero offset are 0, 0, 0, 42 and
\* the code is "000042", the last byte having high bits set.
C19_Witness ==
    /\ resp.op = "generateCodeForCounter"
    /\ resp.hash[20] > 15
    /\ resp.hash[20] % 16 > 0
    /\ resp.code = <<"0", "0", "0", "0", "4", "2">>
\* C20: with the secret GEZDGNBVGY3TQOJQGEZDGNBVGY3TQOJQ the codes of the
\* time steps 1, 37037036 and 37037037 are the last six digits of RFC
\* 6238's SHA1 vectors 94287082, 07081804 and 14050471, and the codes of
\* the time steps 0 to 9 are the HOTP values of RFC 4226, appendix D.
C20_Rfc6238Vectors ==
    resp.op = "hotp"
    => LET expected ==
               [c \in (0..9) \cup {37037036, 37037037} |->
                  CASE c = 0 -> <<"7", "5", "5", "2", "2", "4">>
                    [] c = 1 -> <<"2", "8", "7", "0", "8", "2">>
                    [] c = 2 -> <<"3", "5", "9", "1", "5", "2">>
                    [] c = 3 -> <<"9", "6", "9", "4", "2", "9">>
                    [] c = 4 -> <<"3", "3", "8", "3", "1", "4">>
                    [] c = 5 -> <<"2", "5", "4", "6", "7", "6">>
                    [] c = 6 -> <<"2", "8", "7", "9", "2", "2">>
                    [] c = 7 -> <<"1", "6", "2", "5", "8", "3">>
                    [] c = 8 -> <<"3", "9", "9", "8", "7", "1">>
                    [] c = 9 -> <<"5", "2", "0", "4", "8", "9">>
                    [] c = 37037036 -> <<"0", "8", "1", "8", "0", "4">>
                    [] c = 37037037 -> <<"0", "5", "0", "4", "7", "1">>]
       IN resp.counter \in DOMAIN expected
          => resp.code = expected[resp.counter]

\* C20 witness: the code of time step 37037036 was computed and has a
\* leading zero.
C20_Witness ==
    /\ resp.op = "hotp"
    /\ resp.counter = 37037036
    /\ resp.code = <<"0", "8", "1", "8", "0", "4">>
\* C21: a stored lockout row has locked_until set only if its
\* failed_attempts is at least maxFailedAttempts, whatever the
\* interleaving of recordFailedAttempt calls, lockout checks and clears.
C21_LockOnlyAtThreshold ==
    \A u \in Users :
        (account_lockouts[u] # NoRow /\ account_lockouts[u].locked_until # Null)
        => account_lockouts[u].failed_attempts >= maxFailedAttempts

\* C21 witness: a locked row written after overlapping calls: more calls
\* have completed than the row counts.
C21_Witness ==
    \E u \in LockUsers :
        /\ account_lockouts[u] # NoRow
        /\ account_lockouts[u].locked_until # Null
        /\ hist.streak[u] > account_lockouts[u].failed_attempts
\* C22: a recordFailedAttempt call that finds the account with no lockout
\* row (after clearFailedAttempts) or with a lock whose deadline has passed
\* leaves failed_attempts = 1 and no lock.
C22_CountRestarts ==
    [][\A u \in LockUsers :
          ( /\ resp'.op = "recordFailedAttempt"
            /\ recordFailedAttempt(u)
            /\ (account_lockouts[u] = NoRow \/ lockExpired(u)) )
          => /\ account_lockouts'[u].failed_attempts = 1
             /\ account_lockouts'[u].locked_until = Null
      ]_vars

\* C23: once an account is locked, a failed attempt recorded while the lock
\* is still running does not move locked_until later, so the remaining lock
\* time seen by successive lockout checks never increases.
C23_LockDeadlineFixed ==
    [][\A u \in LockUsers :
          ( /\ resp'.op = "recordFailedAttempt"
            /\ recordFailedAttempt(u)
            /\ isLocked(u) )
          => account_lockouts'[u].locked_until <= account_lockouts[u].locked_until
      ]_vars

\* C24: with verifications overlapping, a backup code is accepted at most
\* once (no verification answers valid for a code already accepted since the
\* list was generated), and once no verification is in progress no accepted
\* code is in the stored list.
C24_BackupCodeOnceConcurrently ==
    [][/\ \A c \in Calls :
             ( /\ pending[c] # Idle
               /\ backupUpdate(c) )
             => toUpperCase(pending[c].code) \notin hist.used[pending[c].user]
       /\ (\A c \in Calls : pending'[c] = Idle)
          => \A u \in GateUsers :
                two_factor_auth'[u] # NoRow
                => \A code \in hist'.used[u] :
                       ~verifyBackupCode(code, two_factor_auth'[u].backup_codes)
      ]_vars

\* C25: is_enabled becomes true only by a verify request that answers
\* valid, an enabled credential stops being enabled only by a disable request
\* that deletes the row, and no request replaces the secret of an enabled
\* credential.
C25_EnabledLifecycle ==
    [][\A u \in GateUsers :
          LET isEnabled(row) == IF row = NoRow THEN FALSE ELSE row.is_enabled
              before == two_factor_auth[u]
              after == two_factor_auth'[u]
          IN /\ (~isEnabled(before) /\ isEnabled(after))
                => (resp'.op = "verify" /\ resp'.user = u /\ resp'.valid)
             /\ (isEnabled(before) /\ ~isEnabled(after))
                => (resp'.op = "disable" /\ resp'.user = u /\ after = NoRow)
             /\ (isEnabled(before) /\ after # NoRow)
                => after.secret_key = before.secret_key
      ]_vars

\* C26: with requests on one key arriving and being checked in any order,
\* the stored count is the number of calls allowed in the current window and
\* never exceeds maxRequests: no increment is lost.
C26_NoLostIncrement ==
    \A k \in Keys :
        LET e == rateLimitStore[k]
            q == hist.allowedAt[k]
            inWindow == {i \in DOMAIN q : q[i].win = hist.win[k].start}
        IN IF e = NoRow THEN q = << >>
           ELSE /\ e.count = Cardinality(inWindow)
                /\ e.count <= effMaxRequests

\* C26 witness: a call was allowed and counted as the maxRequests-th of its
\* window while another request on the same key was in flight.
C26_Witness ==
    \E k \in Keys, c \in Calls :
        /\ resp.op = "checkRateLimit"
        /\ resp.key = k
        /\ resp.allowed
        /\ effMaxRequests > 1
        /\ rateLimitStore[k].count = effMaxRequests
        /\ pending[c] # Idle
        /\ pending[c].key = k

\* C27: for every key, the calls allowed within any span of windowMs are at
\* most 2 * maxRequests, and more than maxRequests of them lie in one such
\* span only when they belong to different windows.
C27_BurstAtMostTwiceLimit ==
    \A k \in Keys :
        LET q == hist.allowedAt[k]
        IN \A i \in DOMAIN q : \A j \in DOMAIN q :
              (i < j /\ q[j].at - q[i].at <= effWindowMs)
              => /\ j - i + 1 <= 2 * effMaxRequests
                 /\ j - i + 1 > effMaxRequests => q[i].win # q[j].win

\* C27 witness: more than maxRequests calls (2 * maxRequests - 1 of them,
\* with maxRequests > 1) were allowed within one span of windowMs that
\* straddles the end of a window.
C27_Witness ==
    \E k \in Keys :
        LET q == hist.allowedAt[k]
        IN /\ effMaxRequests > 1
           /\ \E i \in DOMAIN q : \E j \in DOMAIN q :
                 /\ j - i + 1 = 2 * effMaxRequests - 1
                 /\ q[j].at - q[i].at <= effWindowMs
                 /\ q[i].win # q[j].win

\* C28: terminateOldestSessions(u, keepCount) deactivates exactly the active
\* sessions of u ranked beyond the keepCount most recent by last_activity:
\* min(n, keepCount) of its n active sessions stay active, every survivor's
\* last_activity is at least that of every session deactivated, and every
\* other row (inactive, kept, or of another account) is unchanged.
C28_TerminateBeyondKeepCount ==
    [][( /\ resp'.op = "terminateOldestSessions"
         /\ terminateOldestSessionsCall(resp'.user, resp'.keepCount) )
       => LET u == resp'.user
              keepCount == resp'.keepCount
              act == activeIds(u, user_sessions)
              left == activeIds(u, user_sessions')
              n == Cardinality(act)
          IN /\ Len(user_sessions') = Len(user_sessions)
             /\ left \subseteq act
             /\ Cardinality(left) = IF n < keepCount THEN n ELSE keepCount
             /\ \A s \in left : \A t \in act \ left :
                    user_sessions[s].last_activity
                        >= user_sessions[t].last_activity
             /\ \A t \in act \ left : ~user_sessions'[t].is_active
             /\ \A i \in RowIds(user_sessions) \ (act \ left) :
                    user_sessions'[i] = user_sessions[i]
      ]_vars

\* C28 witness: a call with keepCount 1 deactivated an older session of the
\* account, kept a more recent one, and another account has an active
\* session.
C28_Witness ==
    /\ resp.op = "terminateOldestSessions"
    /\ resp.keepCount = 1
    /\ \E i \in RowIds(user_sessions) : \E j \in RowIds(user_sessions) :
       \E o \in RowIds(user_sessions) :
          /\ user_sessions[i].user_id = resp.user
          /\ ~user_sessions[i].is_active
          /\ user_sessions[i].terminated_at = now
          /\ user_sessions[j].user_id = resp.user
          /\ user_sessions[j].is_active
          /\ user_sessions[j].last_activity > user_sessions[i].last_activity
          /\ user_sessions[o].user_id # resp.user
          /\ user_sessions[o].is_active

\* C29: a code that a verify request accepted is accepted again by every
\* later verify request for the same secret while the current time step is
\* within one step of the code's step: nothing records that it was used.
C29_AcceptedCodeReplays ==
    [][\A u \in GateUsers :
          (resp'.op = "verify" /\ resp'.user = u)
          => \A r \in hist.accepted[u] :
                ( /\ two_factor_auth[u] # NoRow
                  /\ two_factor_auth[u].secret_key = r.code.secret
                  /\ r.code.counter >= currentCounter - 1
                  /\ r.code.counter <= currentCounter + 1
                  /\ twoFactorVerifyRecorded(u, r.code) )
                => (resp'.status = 200 /\ resp'.valid)
      ]_vars

\* C29 witness: one code was accepted at two instants of different time
\* steps, the second acceptance being the last response.
C29_Witness ==
    \E u \in GateUsers :
        /\ resp.op = "verify"
        /\ resp.user = u
        /\ resp.valid
        /\ \E r1 \in hist.accepted[u] : \E r2 \in hist.accepted[u] :
              /\ r1.code = r2.code
              /\ r2.at = now
              /\ (r1.at \div 1000) \div PERIOD < (r2.at \div 1000) \div PERIOD

====
